---- MODULE Spec2Model ----
(***************************************************************************)
(* A model of the directory-walk and structural-extraction pipeline of     *)
(* CoDoc_AI (src/app/services/codebase_analyzer.py).                        *)
(*                                                                         *)
(* Strings of the program whose characters the code inspects (file and     *)
(* directory names, path segments) are sequences of one-character strings; *)
(* a path is a sequence of such segments, an absolute path counted from    *)
(* the filesystem root.                                                    *)
(***************************************************************************)
EXTENDS Integers, Sequences, FiniteSets, TLC

VARIABLES
    cwd,          \* the process's current working directory (absolute path)
    symlinks,     \* the symbolic links of the host: absolute path -> target
    g_path,       \* PathGuard: the path handed to _validate_path_security
    g_result,     \* PathGuard: what the call did (idle / returned / raised)
    p_language,   \* StructuralExtractor: the language tag of the call
    p_tree,       \* StructuralExtractor: the syntax tree of the content
    p_raises,     \* StructuralExtractor: whether the parser call raises
    p_result,     \* StructuralExtractor: what _parse_code_structure returned
    f_file,       \* FileScanner: the file handed to _analyze_file
    f_include,    \* FileScanner: include_documentation
    f_result,     \* FileScanner: what _analyze_file returned
    request,      \* the walk: max_files (empty for None) and include_documentation
    directory_path, \* the walk: the absolute path of the scanned root
    scan_tree,    \* the walk: the listing of the scanned root
    w_pc,         \* the walk: where _analyze_directory stands
    stack,        \* the walk: the directories os.walk has still to yield
    w_root,       \* the walk: root, the directory being looked at (relative)
    w_dirs,       \* the walk: the entries of dirs not yet filtered
    safe_dirs,    \* the walk: safe_dirs
    w_filenames,  \* the walk: the entries of filenames not yet scanned
    files,        \* the walk: files
    directories,  \* the walk: directories
    total_lines,  \* the walk: total_lines
    file_count,   \* the walk: file_count
    technologies, \* the walk: technologies
    w_result,     \* the walk: the returned dict
    a_input_type, \* analyze_codebase: request.input_type
    a_source,     \* analyze_codebase: request.source, a path for a local source
    root_kind,    \* what the host holds at a local source: directory, file, missing
    a_pc,         \* analyze_codebase: where the call stands
    temp_dir,     \* the directory of tempfile.mkdtemp: none, exists, removed
    aborted,      \* the exception that ended the awaited scan from outside, if any
    a_pending,    \* the return value or exception on its way through finally
    a_result,     \* analyze_codebase: what the call did (idle / returned / raised)
    runs,         \* the results of the earlier walks of the same directory
    analysis_results, \* main.py: the job table, analysis_id -> record
    job_requests, \* main.py: the request each background task was given
    tasks,        \* main.py: where each perform_analysis task stands
    clock,        \* the time datetime.now() reads
    response,     \* main.py: the last HTTP response sent
    http_request, \* main.py: the request that response answers
    x_sources,    \* InventorySummarizer: what each file's parse gave, in file order
    x_files,      \* InventorySummarizer: the FileInfo list handed to _extract_code_structure
    x_code_analysis, \* InventorySummarizer: what _extract_code_structure returned
    scans         \* the locals of each job's _analyze_directory call, by analysis_id

guard_vars == <<cwd, symlinks, g_path, g_result>>
parse_vars == <<p_language, p_tree, p_raises, p_result>>
file_vars == <<f_file, f_include, f_result>>
walk_vars == <<request, directory_path, scan_tree, w_pc, stack, w_root, w_dirs, safe_dirs,
               w_filenames, files, directories, total_lines, file_count, technologies,
               w_result>>
entry_vars == <<a_input_type, a_source, root_kind, a_pc, temp_dir, aborted, a_pending, a_result>>
rescan_vars == <<runs>>
job_vars == <<analysis_results, job_requests, tasks, clock, response, http_request>>
summary_vars == <<x_sources, x_files, x_code_analysis>>
scan_vars == <<scans>>
vars == <<guard_vars, parse_vars, file_vars, walk_vars, entry_vars, rescan_vars, job_vars,
          summary_vars, scan_vars>>

(***************************************************************************)
(* Sequences and strings                                                   *)
(***************************************************************************)
IsPrefix(p, s) == Len(p) <= Len(s) /\ SubSeq(s, 1, Len(p)) = p

\* str.startswith / str.endswith
StartsWith(s, p) == IsPrefix(p, s)
EndsWith(s, p) == Len(p) <= Len(s) /\ SubSeq(s, Len(s) - Len(p) + 1, Len(s)) = p

\* all sequences over S of length at most n
SeqsUpTo(S, n) == UNION {[1..k -> S] : k \in 0..n}

(***************************************************************************)
(* str.lower, str.title and Path.suffix on character sequences             *)
(***************************************************************************)
UpperLetters == <<"A","B","C","D","E","F","G","H","I","J","K","L","M",
                  "N","O","P","Q","R","S","T","U","V","W","X","Y","Z">>
LowerLetters == <<"a","b","c","d","e","f","g","h","i","j","k","l","m",
                  "n","o","p","q","r","s","t","u","v","w","x","y","z">>

IndexIn(c, letters) ==
    IF \E i \in 1..Len(letters) : letters[i] = c
    THEN CHOOSE i \in 1..Len(letters) : letters[i] = c
    ELSE 0

LowerChar(c) == IF IndexIn(c, UpperLetters) = 0 THEN c ELSE LowerLetters[IndexIn(c, UpperLetters)]
UpperChar(c) == IF IndexIn(c, LowerLetters) = 0 THEN c ELSE UpperLetters[IndexIn(c, LowerLetters)]
IsLetter(c) == IndexIn(c, UpperLetters) # 0 \/ IndexIn(c, LowerLetters) # 0

\* str.lower()
Lower(s) == [i \in 1..Len(s) |-> LowerChar(s[i])]

\* str.title(): a letter after a non-letter is upper-cased, every other letter
\* lower-cased
Title(s) ==
    [i \in 1..Len(s) |->
        IF i = 1 \/ ~IsLetter(s[i - 1]) THEN UpperChar(s[i]) ELSE LowerChar(s[i])]

\* str.rfind('.') counted from 1; 0 when the name holds no dot
LastDot(name) ==
    IF \E i \in 1..Len(name) : name[i] = "."
    THEN CHOOSE i \in 1..Len(name) :
            name[i] = "." /\ \A j \in (i + 1)..Len(name) : name[j] # "."
    ELSE 0

\* pathlib's Path(file_path).suffix: the final component from its last dot on,
\* empty when that dot leads or ends the name
Suffix(name) ==
    LET i == LastDot(name) IN
    IF 1 < i /\ i < Len(name) THEN SubSeq(name, i, Len(name)) ELSE <<>>

(***************************************************************************)
(* CodebaseAnalyzer.__init__: the extension tables                         *)
(***************************************************************************)
lang_python == <<"p","y","t","h","o","n">>
lang_javascript == <<"j","a","v","a","s","c","r","i","p","t">>
lang_unknown == <<"u","n","k","n","o","w","n">>
language_table ==
    << <<<<".","p","y">>, lang_python>>, <<<<".","j","s">>, lang_javascript>>,
       <<<<".","t","s">>, <<"t","y","p","e","s","c","r","i","p","t">>>>, <<<<".","j","s","x">>, lang_javascript>>,
       <<<<".","t","s","x">>, <<"t","y","p","e","s","c","r","i","p","t">>>>, <<<<".","j","a","v","a">>, <<"j","a","v","a">>>>,
       <<<<".","c","p","p">>, <<"c","p","p">>>>, <<<<".","c">>, <<"c">>>>,
       <<<<".","h">>, <<"c">>>>, <<<<".","h","p","p">>, <<"c","p","p">>>>,
       <<<<".","c","s">>, <<"c","s","h","a","r","p">>>>, <<<<".","g","o">>, <<"g","o">>>>,
       <<<<".","r","b">>, <<"r","u","b","y">>>>, <<<<".","p","h","p">>, <<"p","h","p">>>>,
       <<<<".","s","w","i","f","t">>, <<"s","w","i","f","t">>>>, <<<<".","k","t">>, <<"k","o","t","l","i","n">>>>,
       <<<<".","r","s">>, <<"r","u","s","t">>>>, <<<<".","s","c","a","l","a">>, <<"s","c","a","l","a">>>>,
       <<<<".","r">>, <<"r">>>>, <<<<".","m">>, <<"o","b","j","e","c","t","i","v","e","-","c">>>>,
       <<<<".","p","l">>, <<"p","e","r","l">>>>, <<<<".","s","h">>, <<"b","a","s","h">>>>,
       <<<<".","y","a","m","l">>, <<"y","a","m","l">>>>, <<<<".","y","m","l">>, <<"y","a","m","l">>>>,
       <<<<".","j","s","o","n">>, <<"j","s","o","n">>>>, <<<<".","x","m","l">>, <<"x","m","l">>>>,
       <<<<".","h","t","m","l">>, <<"h","t","m","l">>>>, <<<<".","c","s","s">>, <<"c","s","s">>>>,
       <<<<".","s","c","s","s">>, <<"s","c","s","s">>>>, <<<<".","s","a","s","s">>, <<"s","a","s","s">>>>,
       <<<<".","s","q","l">>, <<"s","q","l">>>>, <<<<".","m","d">>, <<"m","a","r","k","d","o","w","n">>>>,
       <<<<".","t","x","t">>, <<"t","e","x","t">>>> >>

\* dict.get(file_extension, 'unknown')
language_map(ext) ==
    IF \E i \in 1..Len(language_table) : language_table[i][1] = ext
    THEN language_table[CHOOSE i \in 1..Len(language_table) : language_table[i][1] = ext][2]
    ELSE lang_unknown

binary_extensions ==
    { <<".","e","x","e">>, <<".","d","l","l">>, <<".","s","o">>, <<".","d","y","l","i","b">>,
      <<".","a">>, <<".","l","i","b">>, <<".","j","p","g">>, <<".","j","p","e","g">>,
      <<".","p","n","g">>, <<".","g","i","f">>, <<".","b","m","p">>, <<".","i","c","o">>,
      <<".","s","v","g">>, <<".","m","p","3">>, <<".","m","p","4">>, <<".","a","v","i">>,
      <<".","m","o","v">>, <<".","w","a","v">>, <<".","p","d","f">>, <<".","z","i","p">>,
      <<".","t","a","r">>, <<".","g","z">>, <<".","r","a","r">>, <<".","7","z">>,
      <<".","p","y","c">>, <<".","p","y","o">>, <<".","c","l","a","s","s">>, <<".","o">>,
      <<".","o","b","j">> }

\* the directory names of lines 217-220
excluded_dir_names ==
    { <<"n","o","d","e","_","m","o","d","u","l","e","s">>, <<"_","_","p","y","c","a","c","h","e","_","_">>,
      <<"v","e","n","v">>, <<"e","n","v">>,
      <<"b","u","i","l","d">>, <<"d","i","s","t">>,
      <<"t","a","r","g","e","t">>, <<".","g","i","t">>,
      <<".","s","v","n">>, <<".","h","g">>,
      <<".","v","s","c","o","d","e">>, <<".","i","d","e","a">> }

(***************************************************************************)
(* Path segments used by the guard and the walk                            *)
(***************************************************************************)
seg_workspace == <<"w","o","r","k","s","p","a","c","e">>
seg_home == <<"h","o","m","e">>
seg_home2 == <<"h","o","m","e","2">>
seg_tmp == <<"t","m","p">>
seg_etc == <<"e","t","c">>
seg_proc == <<"p","r","o","c">>
seg_sys == <<"s","y","s">>
seg_dev == <<"d","e","v">>
seg_root == <<"r","o","o","t">>
seg_usr == <<"u","s","r">>
seg_bin == <<"b","i","n">>
seg_sbin == <<"s","b","i","n">>
seg_var == <<"v","a","r">>
seg_log == <<"l","o","g">>
seg_boot == <<"b","o","o","t">>
seg_u == <<"u">>
seg_lnk == <<"l","n","k">>

(***************************************************************************)
(* os.path.realpath: resolve every symbolic link of the path, left to      *)
(* right; the link table of the host is acyclic, Fuel bounds the number of *)
(* links one resolution follows.                                           *)
(***************************************************************************)
Fuel == 3

\* the lengths of the proper-or-full prefixes of path that are symbolic links
LinkPrefixes(path, links) == {k \in 1..Len(path) : SubSeq(path, 1, k) \in DOMAIN links}

Min(S) == CHOOSE x \in S : \A y \in S : x <= y

RECURSIVE Resolve(_, _, _)
Resolve(path, links, fuel) ==
    IF fuel = 0 \/ LinkPrefixes(path, links) = {}
    THEN path
    ELSE LET k == Min(LinkPrefixes(path, links))
         IN  Resolve(links[SubSeq(path, 1, k)] \o SubSeq(path, k + 1, Len(path)),
                     links, fuel - 1)

realpath(path, links) == Resolve(path, links, Fuel)

(***************************************************************************)
(* os.path.commonpath of two absolute paths: their longest common prefix   *)
(* of whole segments.                                                      *)
(***************************************************************************)
RECURSIVE commonpath(_, _)
commonpath(a, b) ==
    IF a = <<>> \/ b = <<>> \/ Head(a) # Head(b)
    THEN <<>>
    ELSE <<Head(a)>> \o commonpath(Tail(a), Tail(b))

(***************************************************************************)
(* CodebaseAnalyzer._validate_path_security                                *)
(***************************************************************************)
allowed_base_dirs(cwd_, links) ==
    { realpath(<<seg_workspace>>, links),
      realpath(<<seg_home>>, links),
      realpath(<<seg_tmp>>, links),
      realpath(cwd_, links) }

forbidden_dirs(links) ==
    { realpath(<<seg_etc>>, links),
      realpath(<<seg_proc>>, links),
      realpath(<<seg_sys>>, links),
      realpath(<<seg_dev>>, links),
      realpath(<<seg_root>>, links),
      realpath(<<seg_usr, seg_bin>>, links),
      realpath(<<seg_usr, seg_sbin>>, links),
      realpath(<<seg_sbin>>, links),
      realpath(<<seg_bin>>, links),
      realpath(<<seg_var, seg_log>>, links),
      realpath(<<seg_boot>>, links) }

\* the path written out as text, every segment behind a separator
RECURSIVE SlashText(_)
SlashText(path) ==
    IF path = <<>> THEN <<>> ELSE <<"/">> \o Head(path) \o SlashText(Tail(path))

\* containment decided on the text of the paths: str.startswith
path_allowed_by_string_prefix(real_path, cwd_, links) ==
    \E base_dir \in allowed_base_dirs(cwd_, links) :
        StartsWith(SlashText(real_path), SlashText(base_dir))

\* lines 130-140: some allowed base directory is the common path
path_allowed(real_path, cwd_, links) ==
    \E base_dir \in allowed_base_dirs(cwd_, links) :
        commonpath(real_path, base_dir) = base_dir

\* lines 163-165: the body of the try block raises ValueError for this directory
ForbiddenBodyRaises(real_path, forbidden_dir) ==
    commonpath(real_path, forbidden_dir) = forbidden_dir

\* lines 166-168: the except clause around that body catches ValueError and
\* continues with the next forbidden directory
ForbiddenHandlerCatches == TRUE

\* a ValueError leaves the loop of lines 161-168
ForbiddenLoopRaises(real_path, links) ==
    \E forbidden_dir \in forbidden_dirs(links) :
        /\ ForbiddenBodyRaises(real_path, forbidden_dir)
        /\ ~ForbiddenHandlerCatches

\* the call's outcome: the canonical path returned, or the ValueError raised
validate_path_security(path, cwd_, links) ==
    LET real_path == realpath(path, links) IN
    IF ~path_allowed(real_path, cwd_, links)
    THEN [status |-> "raised", error |-> "Access denied: not within allowed directories",
          real_path |-> real_path]
    ELSE IF ForbiddenLoopRaises(real_path, links)
    THEN [status |-> "raised", error |-> "Access denied: Cannot analyze system directory",
          real_path |-> real_path]
    ELSE [status |-> "returned", error |-> "", real_path |-> real_path]

(***************************************************************************)
(* Syntax trees.  A node of a tree-sitter tree: its type, the text of its  *)
(* 'name' field (empty when the node has none), its own source text (kept  *)
(* for import statements, the only nodes whose text the code reads) and    *)
(* its children in source order.                                           *)
(***************************************************************************)
Node(type, name, text, children) ==
    [type |-> type, name |-> name, text |-> text, children |-> children]

Leaf(type) == Node(type, <<>>, <<>>, <<>>)
Identifier(name) == Node("identifier", <<>>, name, <<>>)

\* the Python grammar
PassStmt == Leaf("pass_statement")
Block(stmts) == Node("block", <<>>, <<>>, stmts)
FunctionDef(name, stmts) ==
    Node("function_definition", name, <<>>, <<Identifier(name), Leaf("parameters"), Block(stmts)>>)
ClassDef(name, stmts) ==
    Node("class_definition", name, <<>>, <<Identifier(name), Block(stmts)>>)
Decorated(definition) ==
    Node("decorated_definition", <<>>, <<>>, <<Leaf("decorator"), definition>>)
IfStmt(stmts) == Node("if_statement", <<>>, <<>>, <<Leaf("true"), Block(stmts)>>)
ImportStmt(text) == Node("import_statement", <<>>, text, <<Leaf("dotted_name")>>)
ImportFromStmt(text) == Node("import_from_statement", <<>>, text, <<Leaf("dotted_name")>>)
Module(stmts) == Node("module", <<>>, <<>>, stmts)

\* the JavaScript grammar
JsFunctionDecl(name, stmts) ==
    Node("function_declaration", name, <<>>,
         <<Identifier(name), Leaf("formal_parameters"), Node("statement_block", <<>>, <<>>, stmts)>>)
JsMethod(name, stmts) ==
    Node("method_definition", name, <<>>,
         <<Node("property_identifier", <<>>, name, <<>>), Leaf("formal_parameters"),
           Node("statement_block", <<>>, <<>>, stmts)>>)
JsClassDecl(name, members) ==
    Node("class_declaration", name, <<>>,
         <<Identifier(name), Node("class_body", <<>>, <<>>, members)>>)
JsImport(text) == Node("import_statement", <<>>, text, <<Leaf("string")>>)
JsProgram(stmts) == Node("program", <<>>, <<>>, stmts)

(***************************************************************************)
(* Helpers over sequences of nodes                                         *)
(***************************************************************************)
IsSpace(c) == c \in {" ", "\t", "\n", "\r"}

\* str.strip()
RECURSIVE LStrip(_)
LStrip(s) == IF s # <<>> /\ IsSpace(Head(s)) THEN LStrip(Tail(s)) ELSE s
RECURSIVE RStrip(_)
RStrip(s) == IF s # <<>> /\ IsSpace(s[Len(s)]) THEN RStrip(SubSeq(s, 1, Len(s) - 1)) ELSE s
Strip(s) == RStrip(LStrip(s))

\* the concatenation of the sequences of a sequence
RECURSIVE Flatten(_)
Flatten(ss) == IF ss = <<>> THEN <<>> ELSE Head(ss) \o Flatten(Tail(ss))

EmptyCodeInfo == [classes |-> <<>>, functions |-> <<>>, imports |-> <<>>]

MergeCodeInfo(a, b) ==
    [classes |-> a.classes \o b.classes,
     functions |-> a.functions \o b.functions,
     imports |-> a.imports \o b.imports]

\* the names of the children of type member_type, with a non-empty name, of
\* the children of type body_type of a class node (lines 377-384, 422-429)
MethodNames(node, body_type, member_type) ==
    LET IsBody(child) == child.type = body_type
        IsMember(stmt) == stmt.type = member_type /\ stmt.name # <<>>
        bodies == SelectSeq(node.children, IsBody)
        members == Flatten([i \in 1..Len(bodies) |-> SelectSeq(bodies[i].children, IsMember)])
    IN  [i \in 1..Len(members) |-> members[i].name]

(***************************************************************************)
(* CodebaseAnalyzer._parse_python_code                                     *)
(***************************************************************************)
\* line 390: (node.parent and node.parent.type != 'block') or
\* (node.parent.parent and node.parent.parent.type != 'class_definition');
\* parent_type and grand_type are "" where the node has no such ancestor
IsTopLevelFunction(parent_type, grand_type) ==
    \/ (parent_type # "" /\ parent_type # "block")
    \/ (grand_type # "" /\ grand_type # "class_definition")

\* what traverse_node appends for the node itself (lines 375-398)
PyOwn(node, parent_type, grand_type) ==
    IF node.type = "class_definition"
    THEN IF node.name # <<>>
         THEN [EmptyCodeInfo EXCEPT !.classes =
                  <<[name |-> node.name, methods |-> MethodNames(node, "block", "function_definition")]>>]
         ELSE EmptyCodeInfo
    ELSE IF node.type = "function_definition"
    THEN IF IsTopLevelFunction(parent_type, grand_type) /\ node.name # <<>>
         THEN [EmptyCodeInfo EXCEPT !.functions = <<node.name>>]
         ELSE EmptyCodeInfo
    ELSE IF node.type \in {"import_statement", "import_from_statement"}
    THEN IF node.text # <<>>
         THEN [EmptyCodeInfo EXCEPT !.imports = <<Strip(node.text)>>]
         ELSE EmptyCodeInfo
    ELSE EmptyCodeInfo

\* traverse_node: the node, then its children in order (lines 374-401)
RECURSIVE PyTraverse(_, _, _)
RECURSIVE PyTraverseAll(_, _, _)
PyTraverse(node, parent_type, grand_type) ==
    MergeCodeInfo(PyOwn(node, parent_type, grand_type),
                  PyTraverseAll(node.children, node.type, parent_type))
PyTraverseAll(children, parent_type, grand_type) ==
    IF children = <<>>
    THEN EmptyCodeInfo
    ELSE MergeCodeInfo(PyTraverse(Head(children), parent_type, grand_type),
                       PyTraverseAll(Tail(children), parent_type, grand_type))

parse_python_code(tree) == PyTraverse(tree, "", "")

(***************************************************************************)
(* CodebaseAnalyzer._parse_javascript_code                                 *)
(***************************************************************************)
JsOwn(node) ==
    IF node.type = "class_declaration"
    THEN IF node.name # <<>>
         THEN [EmptyCodeInfo EXCEPT !.classes =
                  <<[name |-> node.name, methods |-> MethodNames(node, "class_body", "method_definition")]>>]
         ELSE EmptyCodeInfo
    ELSE IF node.type = "function_declaration"
    THEN IF node.name # <<>>
         THEN [EmptyCodeInfo EXCEPT !.functions = <<node.name>>]
         ELSE EmptyCodeInfo
    ELSE IF node.type \in {"import_statement", "import_declaration"}
    THEN IF node.text # <<>>
         THEN [EmptyCodeInfo EXCEPT !.imports = <<Strip(node.text)>>]
         ELSE EmptyCodeInfo
    ELSE EmptyCodeInfo

RECURSIVE JsTraverse(_)
RECURSIVE JsTraverseAll(_)
JsTraverse(node) == MergeCodeInfo(JsOwn(node), JsTraverseAll(node.children))
JsTraverseAll(children) ==
    IF children = <<>>
    THEN EmptyCodeInfo
    ELSE MergeCodeInfo(JsTraverse(Head(children)), JsTraverseAll(Tail(children)))

parse_javascript_code(tree) == JsTraverse(tree)

(***************************************************************************)
(* CodebaseAnalyzer._parse_code_structure.  The result is a sequence: empty *)
(* for None, else the one code_info.  raises says whether the parser call  *)
(* raised, which the except clause of line 362 turns into None.            *)
(***************************************************************************)
\* the except clause answering an empty code_info instead of None
parse_code_structure_empty_on_error(tree, language, raises) ==
    IF raises THEN <<EmptyCodeInfo>>
    ELSE IF language = lang_python THEN <<parse_python_code(tree)>>
    ELSE IF language = lang_javascript THEN <<parse_javascript_code(tree)>>
    ELSE <<>>

parse_code_structure(tree, language, raises) ==
    IF raises THEN <<>>
    ELSE IF language = lang_python THEN <<parse_python_code(tree)>>
    ELSE IF language = lang_javascript THEN <<parse_javascript_code(tree)>>
    ELSE <<>>

(***************************************************************************)
(* Text: str.join, str.split, substring search and decimal numerals        *)
(***************************************************************************)
\* sep.join(parts)
RECURSIVE Join(_, _)
Join(parts, sep) ==
    IF parts = <<>> THEN <<>>
    ELSE IF Len(parts) = 1 THEN Head(parts)
    ELSE Head(parts) \o sep \o Join(Tail(parts), sep)

\* str.find(sub) counted from 1; 0 when sub does not occur
Find(s, sub) ==
    LET hits == {i \in 1..(Len(s) - Len(sub) + 1) : SubSeq(s, i, i + Len(sub) - 1) = sub}
    IN  IF hits = {} THEN 0 ELSE Min(hits)

\* sub in s
Contains(s, sub) == Find(s, sub) # 0

\* s.split(sep)
RECURSIVE Split(_, _)
Split(s, sep) ==
    LET i == Find(s, sep) IN
    IF i = 0 THEN <<s>>
    ELSE <<SubSeq(s, 1, i - 1)>> \o Split(SubSeq(s, i + Len(sep), Len(s)), sep)

Digits == <<"0","1","2","3","4","5","6","7","8","9">>

\* str(n) for n >= 0
RECURSIVE IntText(_)
IntText(n) == IF n < 10 THEN <<Digits[n + 1]>> ELSE IntText(n \div 10) \o <<Digits[(n % 10) + 1]>>

\* list[:n]
Take(s, n) == SubSeq(s, 1, IF Len(s) < n THEN Len(s) ELSE n)

\* os.path.relpath as text: the segments joined by the separator
PathText(rel) == Join(rel, <<"/">>)

(***************************************************************************)
(* CodebaseAnalyzer._generate_file_summary                                 *)
(***************************************************************************)
txt_file == <<" ","f","i","l","e",":"," ">>
txt_Classes == <<"C","l","a","s","s","e","s">>
txt_Functions == <<"F","u","n","c","t","i","o","n","s">>
txt_Imports == <<"I","m","p","o","r","t","s">>
txt_open == <<" ","(">>
txt_close == <<")",":"," ">>
txt_comma == <<","," ">>
txt_semi == <<";"," ">>
txt_bar == <<" ","|"," ">>
txt_ellipsis == <<".",".",".">>

FunctionsShown == 10
ImportsShown == 5

\* "<label> (<n>): " (lines 465, 468, 471)
SectionHead(label, n) == label \o txt_open \o IntText(n) \o txt_close

generate_file_summary(code_info, file_path, language) ==
    LET class_names == [i \in 1..Len(code_info.classes) |-> code_info.classes[i].name]
        head == <<Title(language) \o txt_file \o PathText(file_path)>>
        classes_part ==
            IF code_info.classes # <<>>
            THEN <<SectionHead(txt_Classes, Len(code_info.classes)) \o Join(class_names, txt_comma)>>
            ELSE <<>>
        functions_part ==
            IF code_info.functions # <<>>
            THEN <<SectionHead(txt_Functions, Len(code_info.functions))
                   \o Join(Take(code_info.functions, FunctionsShown), txt_comma)
                   \o (IF Len(code_info.functions) > FunctionsShown THEN txt_ellipsis ELSE <<>>)>>
            ELSE <<>>
        imports_part ==
            IF code_info.imports # <<>>
            THEN <<SectionHead(txt_Imports, Len(code_info.imports))
                   \o Join(Take(code_info.imports, ImportsShown), txt_semi)
                   \o (IF Len(code_info.imports) > ImportsShown THEN txt_ellipsis ELSE <<>>)>>
            ELSE <<>>
    IN  Join(head \o classes_part \o functions_part \o imports_part, txt_bar)

(***************************************************************************)
(* CodebaseAnalyzer._analyze_file.  A file of the tree is a record:        *)
(*   name, link (os.path.islink), stat_ok and size (os.stat), readable     *)
(*   (open and read succeed), newlines (the '\n' count of the content),    *)
(*   tree (the syntax tree the grammar of the file's language yields for   *)
(*   the content) and parse_raises (the parser call raises).               *)
(* The result is a sequence: empty for None, else the one FileInfo.        *)
(***************************************************************************)
MaxFileSize == 1048576

\* the suffix as it is spelled, case kept
file_extension_case_kept(name) == Suffix(name)

\* line 306: Path(file_path).suffix.lower()
file_extension(name) == Lower(Suffix(name))

\* the size test with the boundary on the wrong side
too_large_at_limit(size) == size >= MaxFileSize

\* line 317: file_size > 1024 * 1024
too_large(size) == size > MaxFileSize

\* the structure parsed whether or not documentation was asked for
Documentation_unasked(file, relative_path, language, include_documentation) ==
    IF language \in {lang_python, lang_javascript}
    THEN LET code_info == parse_code_structure(file.tree, language, file.parse_raises)
         IN  IF code_info # <<>>
             THEN <<generate_file_summary(code_info[1], relative_path, language)>>
             ELSE <<>>
    ELSE <<>>

\* lines 334-339; the documentation is a sequence, empty for None
Documentation(file, relative_path, language, include_documentation) ==
    IF include_documentation /\ language \in {lang_python, lang_javascript}
    THEN LET code_info == parse_code_structure(file.tree, language, file.parse_raises)
         IN  IF code_info # <<>>
             THEN <<generate_file_summary(code_info[1], relative_path, language)>>
             ELSE <<>>
    ELSE <<>>

\* the except clause of lines 330-332 going on with the empty content instead
\* of returning None
analyze_file_reads_nothing(file, relative_path, include_documentation) ==
    LET ext == file_extension(file.name)
        language == language_map(ext)
    IN  IF ext \in binary_extensions THEN <<>>
        ELSE IF ~file.stat_ok THEN <<>>
        ELSE IF too_large(file.size) THEN <<>>
        ELSE <<[path |-> relative_path,
                type |-> ext,
                size |-> file.size,
                lines |-> IF file.readable THEN file.newlines + 1 ELSE 0,
                language |-> language,
                documentation |->
                    Documentation(file, relative_path, language, include_documentation)]>>

analyze_file(file, relative_path, include_documentation) ==
    LET ext == file_extension(file.name)
        language == language_map(ext)
    IN  IF ext \in binary_extensions THEN <<>>
        ELSE IF ~file.stat_ok THEN <<>>
        ELSE IF too_large(file.size) THEN <<>>
        ELSE IF ~file.readable THEN <<>>
        ELSE <<[path |-> relative_path,
                type |-> ext,
                size |-> file.size,
                lines |-> file.newlines + 1,
                language |-> language,
                documentation |->
                    Documentation(file, relative_path, language, include_documentation)]>>

(***************************************************************************)
(* CodebaseAnalyzer._extract_code_structure                                *)
(***************************************************************************)
\* lines 485-491: the classes one file contributes
ClassesOfFile(file_info) ==
    LET doc == file_info.documentation[1]
        classes_part == Split(Split(doc, txt_Classes)[2], <<"|">>)[1]
        class_names ==
            IF Contains(classes_part, <<":">>)
            THEN Strip(Split(classes_part, <<":">>)[2])
            ELSE <<>>
        names == IF class_names = <<>> THEN <<>> ELSE Split(class_names, txt_comma)
        IsName(name) == Strip(name) # <<>>
        kept == SelectSeq(names, IsName)
    IN  IF file_info.documentation # <<>>
           /\ file_info.language \in {lang_python, lang_javascript}
           /\ Contains(file_info.documentation[1], txt_Classes)
           /\ classes_part # <<>>
        THEN [i \in 1..Len(kept) |-> [name |-> Strip(kept[i]), file |-> file_info.path]]
        ELSE <<>>

\* total_classes counting the files that have classes instead of the classes
extract_code_structure_counts_files(file_infos) ==
    LET all_classes == Flatten([i \in 1..Len(file_infos) |-> ClassesOfFile(file_infos[i])])
        HasClasses(file_info) == ClassesOfFile(file_info) # <<>>
    IN  [total_classes |-> Len(SelectSeq(file_infos, HasClasses)),
         total_functions |-> 0,
         total_imports |-> 0,
         classes_by_file |-> all_classes]

extract_code_structure(file_infos) ==
    LET all_classes == Flatten([i \in 1..Len(file_infos) |-> ClassesOfFile(file_infos[i])])
        all_functions == <<>>
        all_imports == {}
    IN  [total_classes |-> Len(all_classes),
         total_functions |-> Len(all_functions),
         total_imports |-> Cardinality(all_imports),
         classes_by_file |-> all_classes]

(***************************************************************************)
(* The walk: CodebaseAnalyzer._analyze_directory.                          *)
(*                                                                         *)
(* A directory of the scanned tree is a listing as os.walk reads it: the   *)
(* sequence of its directory entries (name, link, the listing below) and   *)
(* the sequence of its files, both in the order the filesystem lists them. *)
(* A symbolic link to a directory is a directory entry with link = TRUE,   *)
(* below it what a listing through the link shows.                         *)
(***************************************************************************)
Listing(dir_entries, file_entries) == [dirs |-> dir_entries, files |-> file_entries]
DirEntry(name, link, sub) == [name |-> name, link |-> link, sub |-> sub]

\* the listing of the directory at relative path rel
RECURSIVE Lookup(_, _)
Lookup(listing, rel) ==
    IF rel = <<>> THEN listing
    ELSE LET i == CHOOSE i \in 1..Len(listing.dirs) : listing.dirs[i].name = Head(rel)
         IN  Lookup(listing.dirs[i].sub, Tail(rel))

\* bool(request.max_files): None and 0 are false
Truthy(max_files) == max_files # <<>> /\ max_files[1] # 0

\* lines 244 and 278: request.max_files and file_count >= request.max_files
limit_reached(max_files, count) == Truthy(max_files) /\ count >= max_files[1]

\* a guard that lets every path through
validation_never_fails(path, cwd_, links) == FALSE

\* the guard raises ValueError for the path (lines 205, 230, 261)
validation_fails(path, cwd_, links) ==
    validate_path_security(path, cwd_, links).status = "raised"

\* the exclusion by name reduced to the hidden directories
dir_excluded_hidden_only(d) == StartsWith(d, <<".">>)

\* line 217: hidden directories and the build and cache directories
dir_excluded(d) == StartsWith(d, <<".">>) \/ d \in excluded_dir_names

\* no entry is taken for a symbolic link
is_link_never(entry) == FALSE

\* lines 224 and 255: os.path.islink
is_link(entry) == entry.link

\* line 251: hidden files and log files
file_skipped(filename) == StartsWith(filename, <<".">>) \/ EndsWith(filename, <<".","l","o","g">>)

\* directories.append(d): the name of the directory instead of its path
record_directory_by_name(directories_, root, d) == Append(directories_, <<d>>)

\* lines 232-233: the path of the directory relative to the scanned root
record_directory(directories_, root, d) == Append(directories_, root \o <<d>>)

\* the newlines of the file added instead of its lines
add_newlines(total, file_info) == total + file_info.lines - 1

\* line 271: total_lines += file_info.lines
add_lines(total, file_info) == total + file_info.lines

\* sorted(list(technologies)): the order of str, by code point
Alphabet == <<"-","a","b","c","d","e","f","g","h","i","j","k","l","m",
              "n","o","p","q","r","s","t","u","v","w","x","y","z">>
RECURSIVE TextLess(_, _)
TextLess(a, b) ==
    IF b = <<>> THEN FALSE
    ELSE IF a = <<>> THEN TRUE
    ELSE IF Head(a) = Head(b) THEN TextLess(Tail(a), Tail(b))
    ELSE IndexIn(Head(a), Alphabet) < IndexIn(Head(b), Alphabet)
RECURSIVE Sorted(_)
Sorted(S) ==
    IF S = {} THEN <<>>
    ELSE LET least == CHOOSE x \in S : \A y \in S \ {x} : TextLess(x, y)
         IN  <<least>> \o Sorted(S \ {least})

txt_analyzed_project == <<"A","n","a","l","y","z","e","d"," ","P","r","o","j","e","c","t">>

\* lines 282-284: os.path.basename of the scan root, or the placeholder
project_name(directory_path_) ==
    LET base == IF directory_path_ = <<>> THEN <<>> ELSE directory_path_[Len(directory_path_)]
    IN  IF base = <<".">> \/ base = <<>> THEN txt_analyzed_project ELSE base

\* lines 287-301: the returned dict
build_result(directory_path_, files_, directories_, total_lines_, technologies_) ==
    [status |-> "returned",
     structure |-> [name |-> project_name(directory_path_),
                    files |-> files_,
                    directories |-> directories_,
                    total_files |-> Len(files_),
                    total_lines |-> total_lines_],
     technologies |-> Sorted(technologies_),
     total_files |-> Len(files_),
     total_lines |-> total_lines_,
     code_analysis |-> extract_code_structure(files_)]

WalkIdle == [status |-> "idle"]

\* os.walk yields the next directory; its root is validated (lines 202-209)
VisitDirectory ==
    /\ w_pc = "walk"
    /\ stack # <<>>
    /\ LET rel == Head(stack)
           listing == Lookup(scan_tree, rel)
       IN  IF validation_fails(directory_path \o rel, cwd, symlinks)
           THEN \* dirs.clear(); continue
                /\ stack' = Tail(stack)
                /\ UNCHANGED <<w_pc, w_root, w_dirs, safe_dirs, w_filenames>>
           ELSE /\ stack' = Tail(stack)
                /\ w_root' = rel
                /\ w_dirs' = listing.dirs
                /\ safe_dirs' = <<>>
                /\ w_filenames' = listing.files
                /\ w_pc' = IF listing.dirs = <<>> THEN "files" ELSE "dirs"
    /\ UNCHANGED <<request, directory_path, scan_tree, files, directories, total_lines,
                   file_count, technologies, w_result>>
    /\ UNCHANGED <<guard_vars, parse_vars, file_vars, entry_vars, rescan_vars, job_vars, summary_vars, scan_vars>>

\* one iteration of the loop over dirs (lines 213-236); after the last one
\* dirs[:] = safe_dirs (line 239)
FilterDir ==
    /\ w_pc = "dirs"
    /\ w_dirs # <<>>
    /\ LET d == Head(w_dirs)
           rel == w_root \o <<d.name>>
           kept == /\ ~dir_excluded(d.name)
                   /\ ~is_link(d)
                   /\ ~validation_fails(directory_path \o rel, cwd, symlinks)
       IN  /\ safe_dirs' = IF kept THEN Append(safe_dirs, d) ELSE safe_dirs
           /\ directories' = IF kept
                             THEN record_directory(directories, w_root, d.name)
                             ELSE directories
    /\ w_dirs' = Tail(w_dirs)
    /\ w_pc' = IF Tail(w_dirs) = <<>> THEN "files" ELSE "dirs"
    /\ UNCHANGED <<request, directory_path, scan_tree, stack, w_root, w_filenames, files,
                   total_lines, file_count, technologies, w_result>>
    /\ UNCHANGED <<guard_vars, parse_vars, file_vars, entry_vars, rescan_vars, job_vars, summary_vars, scan_vars>>

\* one iteration of the loop over filenames (lines 242-275)
ScanFile ==
    /\ w_pc = "files"
    /\ w_filenames # <<>>
    /\ LET file == Head(w_filenames)
           rel == w_root \o <<file.name>>
           passed == /\ ~file_skipped(file.name)
                     /\ ~is_link(file)
                     /\ ~validation_fails(directory_path \o rel, cwd, symlinks)
           file_info == IF passed
                        THEN analyze_file(file, rel, request.include_documentation)
                        ELSE <<>>
       IN  IF limit_reached(request.max_files, file_count)
           THEN \* break: the rest of the directory is not looked at
                /\ w_filenames' = <<>>
                /\ UNCHANGED <<files, total_lines, file_count, technologies>>
           ELSE /\ w_filenames' = Tail(w_filenames)
                /\ IF file_info # <<>>
                   THEN /\ files' = Append(files, file_info[1])
                        /\ total_lines' = add_lines(total_lines, file_info[1])
                        /\ file_count' = file_count + 1
                        /\ technologies' =
                               IF file_info[1].language # <<>>
                               THEN technologies \cup {file_info[1].language}
                               ELSE technologies
                   ELSE UNCHANGED <<files, total_lines, file_count, technologies>>
    /\ UNCHANGED <<request, directory_path, scan_tree, w_pc, stack, w_root, w_dirs, safe_dirs,
                   directories, w_result>>
    /\ UNCHANGED <<guard_vars, parse_vars, file_vars, entry_vars, rescan_vars, job_vars, summary_vars, scan_vars>>

\* the end of the loop body (lines 277-279), then os.walk descends into the
\* directories left in dirs that are no symbolic links (followlinks=False)
LeaveDirectory ==
    /\ w_pc = "files"
    /\ w_filenames = <<>>
    /\ IF limit_reached(request.max_files, file_count)
       THEN /\ w_pc' = "assemble"
            /\ UNCHANGED stack
       ELSE LET NotLink(d) == ~d.link
                descend == SelectSeq(safe_dirs, NotLink)
            IN  /\ stack' = [i \in 1..Len(descend) |-> w_root \o <<descend[i].name>>] \o stack
                /\ w_pc' = "walk"
    /\ UNCHANGED <<request, directory_path, scan_tree, w_root, w_dirs, safe_dirs, w_filenames,
                   files, directories, total_lines, file_count, technologies, w_result>>
    /\ UNCHANGED <<guard_vars, parse_vars, file_vars, entry_vars, rescan_vars, job_vars, summary_vars, scan_vars>>

\* the walk is over: the result is assembled and returned (lines 281-301)
Assemble ==
    /\ \/ w_pc = "assemble"
       \/ w_pc = "walk" /\ stack = <<>>
    /\ w_result' = build_result(directory_path, files, directories, total_lines, technologies)
    /\ w_pc' = "done"
    /\ UNCHANGED <<request, directory_path, scan_tree, stack, w_root, w_dirs, safe_dirs,
                   w_filenames, files, directories, total_lines, file_count, technologies>>
    /\ UNCHANGED <<guard_vars, parse_vars, file_vars, entry_vars, rescan_vars, job_vars, summary_vars, scan_vars>>

(***************************************************************************)
(* The hosts and paths the guard is exercised on                           *)
(***************************************************************************)
MaxPathLen == 3

GuardSegments == {seg_home, seg_home2, seg_tmp, seg_etc, seg_root, seg_usr, seg_bin,
                  seg_workspace, seg_u, seg_lnk}

GuardPaths == SeqsUpTo(GuardSegments, MaxPathLen) \ {<<>>}

\* the current working directories of the modelled hosts
Cwds == { <<seg_root, seg_workspace>>, <<seg_home, seg_u>> }

\* the link tables of the modelled hosts: none; a link in a home directory to
\* /etc; a merged-/usr host where /bin is a link to /usr/bin
NoLinks == <<>>
LinkTables ==
    { NoLinks,
      [p \in {<<seg_home, seg_u, seg_lnk>>} |-> <<seg_etc>>],
      [p \in {<<seg_bin>>} |-> <<seg_usr, seg_bin>>] }

GuardIdle == [status |-> "idle", error |-> "", real_path |-> <<>>]

\* no call of the guard is under way
IdleGuard ==
    /\ cwd = <<seg_root, seg_workspace>>
    /\ symlinks = NoLinks
    /\ g_path = <<>>
    /\ g_result = GuardIdle

\* no call of the extractor is under way
IdleParse ==
    /\ p_language = lang_python
    /\ p_tree = Leaf("module")
    /\ p_raises = FALSE
    /\ p_result = [status |-> "idle", code_info |-> <<>>]

\* no call of the file scanner is under way
IdleFile ==
    /\ f_file = [name |-> <<>>]
    /\ f_include = FALSE
    /\ f_result = [status |-> "idle", info |-> <<>>]

\* no walk is under way
IdleWalk ==
    /\ request = [max_files |-> <<>>, include_documentation |-> FALSE]
    /\ directory_path = <<>>
    /\ scan_tree = Listing(<<>>, <<>>)
    /\ w_pc = "idle"
    /\ stack = <<>>
    /\ w_root = <<>>
    /\ w_dirs = <<>>
    /\ safe_dirs = <<>>
    /\ w_filenames = <<>>
    /\ files = <<>>
    /\ directories = <<>>
    /\ total_lines = 0
    /\ file_count = 0
    /\ technologies = {}
    /\ w_result = WalkIdle

EntryIdle == [status |-> "idle"]

\* no call of analyze_codebase is under way
IdleEntry ==
    /\ a_input_type = "local_path"
    /\ a_source = <<>>
    /\ root_kind = "directory"
    /\ a_pc = "idle"
    /\ temp_dir = "none"
    /\ aborted = ""
    /\ a_pending = EntryIdle
    /\ a_result = EntryIdle

\* the directory has not been walked before
IdleRescan == runs = <<>>

\* the service holds no job and has answered no request
IdleJobs ==
    /\ analysis_results = <<>>
    /\ job_requests = <<>>
    /\ tasks = <<>>
    /\ clock = 0
    /\ response = [status_code |-> 0]
    /\ http_request = [endpoint |-> "none"]

\* no summaries are being aggregated
IdleSummary ==
    /\ x_sources = <<>>
    /\ x_files = <<>>
    /\ x_code_analysis = [status |-> "idle"]

\* no job has a scan under way
IdleScans == scans = <<>>

InitGuard ==
    /\ cwd \in Cwds
    /\ symlinks \in LinkTables
    /\ g_path \in GuardPaths
    /\ g_result = GuardIdle
    /\ IdleParse
    /\ IdleFile
    /\ IdleWalk
    /\ IdleEntry
    /\ IdleRescan
    /\ IdleJobs
    /\ IdleSummary
    /\ IdleScans

\* one call of _validate_path_security(g_path)
ValidatePath ==
    /\ g_result.status = "idle"
    /\ g_result' = validate_path_security(g_path, cwd, symlinks)
    /\ UNCHANGED <<cwd, symlinks, g_path>>
    /\ UNCHANGED <<parse_vars, file_vars, walk_vars, entry_vars, rescan_vars, job_vars, summary_vars, scan_vars>>

NextGuard == ValidatePath

SpecGuard == InitGuard /\ [][NextGuard]_vars

(***************************************************************************)
(* The sources the parsers are exercised on                                *)
(***************************************************************************)
n_foo == <<"f","o","o">>
n_inner == <<"i","n","n","e","r">>
n_wrapped == <<"w","r","a","p","p","e","d">>
n_guarded == <<"g","u","a","r","d","e","d">>
n_Bar == <<"B","a","r">>
n_Nested == <<"N","e","s","t","e","d">>
n_baz == <<"b","a","z">>
n_helper == <<"h","e","l","p","e","r">>
n_local == <<"l","o","c","a","l">>
n_static == <<"s","t","a","t","i","c">>
n_deep == <<"d","e","e","p">>
txt_import_os == <<"i","m","p","o","r","t"," ","o","s">>
txt_from_import == <<"f","r","o","m"," ","a"," ","i","m","p","o","r","t"," ","b">>
txt_js_import == <<"i","m","p","o","r","t"," ","x"," ","f","r","o","m"," ","'","y","'">>

\* all subsequences of s (the elements kept stay in order)
RECURSIVE SubSeqs(_)
SubSeqs(s) ==
    IF s = <<>> THEN {<<>>}
    ELSE LET rest == SubSeqs(Tail(s))
         IN  rest \cup {<<Head(s)>> \o r : r \in rest}

\* the statements a Python class body is made of: a method, a method holding
\* a nested function, a decorated method, a nested class with its own method
PyClassStmts ==
    << FunctionDef(n_baz, <<PassStmt>>),
       FunctionDef(n_helper, <<FunctionDef(n_local, <<PassStmt>>)>>),
       Decorated(FunctionDef(n_static, <<PassStmt>>)),
       ClassDef(n_Nested, <<FunctionDef(n_deep, <<PassStmt>>)>>) >>

PyClassBodies == {<<PassStmt>>} \cup (SubSeqs(PyClassStmts) \ {<<>>})

\* the statements a Python module is made of
PyTopStmts ==
    { ImportStmt(txt_import_os),
      ImportFromStmt(txt_from_import),
      FunctionDef(n_foo, <<PassStmt>>),
      FunctionDef(n_foo, <<FunctionDef(n_inner, <<PassStmt>>)>>),
      Decorated(FunctionDef(n_wrapped, <<PassStmt>>)),
      IfStmt(<<FunctionDef(n_guarded, <<PassStmt>>)>>) }
    \cup {ClassDef(n_Bar, body) : body \in PyClassBodies}

MaxTopStmts == 2

PyModules == {Module(stmts) : stmts \in SeqsUpTo(PyTopStmts, MaxTopStmts)}

\* JavaScript: a class with a method and a method holding a nested function
JsClassMembers ==
    << JsMethod(n_baz, <<>>),
       JsMethod(n_helper, <<JsFunctionDecl(n_local, <<>>)>>) >>

JsTopStmts ==
    { JsImport(txt_js_import),
      JsFunctionDecl(n_foo, <<>>),
      JsFunctionDecl(n_foo, <<JsFunctionDecl(n_inner, <<>>)>>) }
    \cup {JsClassDecl(n_Bar, members) : members \in SubSeqs(JsClassMembers)}

JsPrograms == {JsProgram(stmts) : stmts \in SeqsUpTo(JsTopStmts, MaxTopStmts)}

ParseIdle == [status |-> "idle", code_info |-> <<>>]

InitParse ==
    /\ p_language \in {lang_python, lang_javascript}
    /\ p_tree \in (IF p_language = lang_python THEN PyModules ELSE JsPrograms)
    /\ p_raises \in BOOLEAN
    /\ p_result = ParseIdle
    /\ IdleGuard
    /\ IdleFile
    /\ IdleWalk
    /\ IdleEntry
    /\ IdleRescan
    /\ IdleJobs
    /\ IdleSummary
    /\ IdleScans

\* one call of _parse_code_structure(content, language)
ParseCodeStructure ==
    /\ p_result.status = "idle"
    /\ p_result' = [status |-> "returned",
                    code_info |-> parse_code_structure(p_tree, p_language, p_raises)]
    /\ UNCHANGED <<p_language, p_tree, p_raises>>
    /\ UNCHANGED <<guard_vars, file_vars, walk_vars, entry_vars, rescan_vars, job_vars, summary_vars, scan_vars>>

NextParse == ParseCodeStructure

SpecParse == InitParse /\ [][NextParse]_vars

(***************************************************************************)
(* The files _analyze_file is exercised on                                 *)
(***************************************************************************)
f_a_py == <<"a",".","p","y">>
f_b_js == <<"b",".","j","s">>
f_c_PNG == <<"c",".","P","N","G">>
f_d_tar_gz == <<"d",".","t","a","r",".","g","z">>
f_e_txt == <<"e",".","t","x","t">>
f_Makefile == <<"M","a","k","e","f","i","l","e">>
f_g_Pyc == <<"g",".","P","y","c">>
f_h_pngx == <<"h",".","p","n","g","x">>
f_dot_png == <<".","p","n","g">>

f_i_JSX == <<"i",".","J","S","X">>

ScanNames == { f_i_JSX, f_a_py, f_b_js, f_c_PNG, f_d_tar_gz, f_e_txt, f_Makefile, f_g_Pyc, f_h_pngx, f_dot_png }

MaxNewlines == 1

ScanSizes == {0, MaxFileSize - 1, MaxFileSize, MaxFileSize + 1}

\* the module of the specification's example: one import, one top-level
\* function, one class with one method
SamplePyModule ==
    Module(<<ImportStmt(txt_import_os), FunctionDef(n_foo, <<PassStmt>>),
             ClassDef(n_Bar, <<FunctionDef(n_baz, <<PassStmt>>)>>)>>)

SampleJsProgram ==
    JsProgram(<<JsImport(txt_js_import), JsFunctionDecl(n_foo, <<>>),
                JsClassDecl(n_Bar, <<JsMethod(n_baz, <<>>)>>)>>)

\* the syntax trees a file of the language may hold
TreesFor(language) ==
    IF language = lang_python THEN {Module(<<>>), SamplePyModule}
    ELSE IF language = lang_javascript THEN {SampleJsProgram}
    ELSE {Leaf("none")}

ScanFiles ==
    UNION { [name : {name}, link : {FALSE}, stat_ok : BOOLEAN, size : ScanSizes,
             readable : BOOLEAN, newlines : 0..MaxNewlines,
             tree : TreesFor(language_map(file_extension(name))),
             parse_raises : BOOLEAN] : name \in ScanNames }

ScanIdle == [status |-> "idle", info |-> <<>>]

InitFile ==
    /\ f_file \in ScanFiles
    /\ f_include \in BOOLEAN
    /\ f_result = ScanIdle
    /\ IdleGuard
    /\ IdleParse
    /\ IdleWalk
    /\ IdleEntry
    /\ IdleRescan
    /\ IdleJobs
    /\ IdleSummary
    /\ IdleScans

\* one call of _analyze_file(file_path, relative_path, include_documentation)
AnalyzeFile ==
    /\ f_result.status = "idle"
    /\ f_result' = [status |-> "returned",
                    info |-> analyze_file(f_file, <<f_file.name>>, f_include)]
    /\ UNCHANGED <<f_file, f_include>>
    /\ UNCHANGED <<guard_vars, parse_vars, walk_vars, entry_vars, rescan_vars, job_vars, summary_vars, scan_vars>>

NextFile == AnalyzeFile

SpecFile == InitFile /\ [][NextFile]_vars

(***************************************************************************)
(* The trees, requests and scan roots the walk is exercised on             *)
(***************************************************************************)
FileEntry(name, link, stat_ok, size, readable, newlines, syntax, parse_raises) ==
    [name |-> name, link |-> link, stat_ok |-> stat_ok, size |-> size,
     readable |-> readable, newlines |-> newlines, tree |-> syntax,
     parse_raises |-> parse_raises]

\* a Python file of two lines; a JavaScript file of exactly the size limit
\* whose parse raises; a text file of three lines; a symbolic link to a Python
\* file; an image; a hidden file; a log file
wf_main == FileEntry(<<"m","a","i","n",".","p","y">>, FALSE, TRUE, 120, TRUE, 1, SamplePyModule, FALSE)
wf_app == FileEntry(<<"a","p","p",".","j","s">>, FALSE, TRUE, MaxFileSize, TRUE, 0, SampleJsProgram, TRUE)
wf_notes == FileEntry(<<"n","o","t","e","s",".","t","x","t">>, FALSE, TRUE, 0, TRUE, 2, Leaf("none"), FALSE)
wf_link == FileEntry(<<"l","i","n","k",".","p","y">>, TRUE, TRUE, 120, TRUE, 1, SamplePyModule, FALSE)
wf_image == FileEntry(<<"l","o","g","o",".","P","N","G">>, FALSE, TRUE, 120, TRUE, 0, Leaf("none"), FALSE)
wf_hidden == FileEntry(<<".","e","n","v">>, FALSE, TRUE, 120, TRUE, 0, Leaf("none"), FALSE)
wf_log == FileEntry(<<"r","u","n",".","l","o","g">>, FALSE, TRUE, 120, TRUE, 0, Leaf("none"), FALSE)

WalkFiles == {wf_main, wf_app, wf_notes, wf_link, wf_image, wf_hidden, wf_log}

\* a Python file that is gone when os.stat looks at it; a Markdown file that
\* open() refuses
wf_gone == FileEntry(<<"g","o","n","e",".","p","y">>, FALSE, FALSE, 0, FALSE, 0, SamplePyModule, FALSE)
wf_locked == FileEntry(<<"l","o","c","k","e","d",".","m","d">>, FALSE, TRUE, 64, FALSE, 0, Leaf("none"), FALSE)

FaultFiles == {wf_gone, wf_locked, wf_main, wf_notes}

d_src == <<"s","r","c">>
d_lib == <<"l","i","b">>
d_node_modules == <<"n","o","d","e","_","m","o","d","u","l","e","s">>
d_cache == <<".","c","a","c","h","e">>
d_lnk == <<"l","n","k">>

\* the directory names of the trees; the one named lnk is a symbolic link
DirNames == {d_src, d_node_modules, d_cache, d_lnk}

DistinctSeqs(S, n) ==
    {s \in SeqsUpTo(S, n) : \A i, j \in 1..Len(s) : i # j => s[i] # s[j]}

MaxRootFiles == 3

\* flat trees: up to MaxRootFiles files in the root, in any order
FlatTrees == {Listing(<<>>, fs) : fs \in DistinctSeqs(WalkFiles, MaxRootFiles)}

\* deep trees: a directory in the root, holding at most one file and at most
\* one directory with at most one file, and a second plain directory beside it
Level2Options ==
    {<<>>} \cup {<<DirEntry(n, n = d_lnk, Listing(<<>>, fs))>> :
                    n \in DirNames, fs \in {<<>>, <<wf_main>>}}
Level1Options ==
    {<<>>} \cup {<<DirEntry(n, n = d_lnk, Listing(ds, fs))>> :
                    n \in DirNames, ds \in Level2Options, fs \in {<<>>, <<wf_main>>}}
SiblingOptions ==
    {<<>>} \cup {<<DirEntry(d_lib, FALSE, Listing(<<>>, fs))>> : fs \in {<<>>, <<wf_notes>>}}
DeepTrees ==
    {Listing(first \o second, fs) :
        first \in Level1Options, second \in SiblingOptions, fs \in {<<>>, <<wf_app>>}}

\* trees with files whose scan fails: in the root, in any order among sound
\* files, and in a directory below it
FaultyTrees ==
    {Listing(ds, fs) :
        ds \in {<<>>, <<DirEntry(d_src, FALSE, Listing(<<>>, <<wf_locked, wf_main>>))>>},
        fs \in DistinctSeqs(FaultFiles, MaxRootFiles)}

Trees == FlatTrees \cup DeepTrees \cup FaultyTrees

MaxFilesLimit == 2

\* max_files: None, or an integer from 0 on
MaxFilesValues == {<<>>} \cup {<<n>> : n \in 0..MaxFilesLimit}

seg_proj == <<"p","r","o","j">>

\* the scanned root: a directory under /tmp, or the clone directory of a
\* host whose temporary directory is /var/tmp
ScanRoots == { <<seg_tmp, seg_proj>>, <<seg_var, seg_tmp, seg_proj>> }

Init ==
    /\ request \in [max_files : MaxFilesValues, include_documentation : BOOLEAN]
    /\ directory_path \in ScanRoots
    /\ scan_tree \in Trees
    /\ w_pc = "walk"
    /\ stack = << <<>> >>
    /\ w_root = <<>>
    /\ w_dirs = <<>>
    /\ safe_dirs = <<>>
    /\ w_filenames = <<>>
    /\ files = <<>>
    /\ directories = <<>>
    /\ total_lines = 0
    /\ file_count = 0
    /\ technologies = {}
    /\ w_result = WalkIdle
    /\ IdleGuard
    /\ IdleParse
    /\ IdleFile
    /\ IdleEntry
    /\ IdleRescan
    /\ IdleJobs
    /\ IdleSummary
    /\ IdleScans

Next ==
    \/ VisitDirectory
    \/ FilterDir
    \/ ScanFile
    \/ LeaveDirectory
    \/ Assemble

Spec == Init /\ [][Next]_vars

(***************************************************************************)
(* CodebaseAnalyzer.analyze_codebase: the two entries to the walk,         *)
(* _analyze_local_path and _analyze_github_repo.  The call stands at       *)
(* start, cloning, scanning (awaiting _analyze_directory), finally or      *)
(* exited.                                                                 *)
(***************************************************************************)
\* the root checked for everything but a missing path
root_error_missing_only(kind) ==
    IF kind = "missing" THEN "FileNotFoundError" ELSE ""

\* lines 179-183: os.path.exists and os.path.isdir of the resolved root; the
\* exception raised, "" when there is none
root_error(kind) ==
    IF kind = "missing" THEN "FileNotFoundError"
    ELSE IF kind # "directory" THEN "ValueError"
    ELSE ""

\* the directory removed only when the scan returned
cleanup_after_return_only(temp_dir_, outcome) ==
    IF outcome.status = "returned" /\ temp_dir_ = "exists" THEN "removed" ELSE temp_dir_

\* lines 108-111: finally, whatever the outcome: if os.path.exists(temp_dir):
\* shutil.rmtree(temp_dir)
finally_cleanup(temp_dir_, outcome) ==
    IF temp_dir_ = "exists" THEN "removed" ELSE temp_dir_

\* the directory tempfile.mkdtemp creates
seg_tmpdir == <<"t","m","p","8","x","q">>
TempDirPath == <<seg_tmp, seg_tmpdir>>

Raised(error) == [status |-> "raised", error |-> error]

\* _analyze_directory is entered with the root (lines 195-202)
BeginWalk(path) ==
    /\ directory_path' = path
    /\ w_pc' = "walk"
    /\ stack' = << <<>> >>
    /\ UNCHANGED <<request, scan_tree, w_root, w_dirs, safe_dirs, w_filenames, files,
                   directories, total_lines, file_count, technologies, w_result>>

\* _analyze_local_path up to its await (lines 174-186)
AnalyzeLocalPath ==
    /\ a_pc = "start"
    /\ a_input_type = "local_path"
    /\ LET checked == validate_path_security(a_source, cwd, symlinks) IN
       IF checked.status = "raised"
       THEN /\ a_result' = Raised("ValueError")
            /\ a_pc' = "exited"
            /\ UNCHANGED walk_vars
       ELSE IF root_error(root_kind) # ""
       THEN /\ a_result' = Raised(root_error(root_kind))
            /\ a_pc' = "exited"
            /\ UNCHANGED walk_vars
       ELSE /\ BeginWalk(checked.real_path)
            /\ a_pc' = "scanning"
            /\ UNCHANGED a_result
    /\ UNCHANGED <<a_input_type, a_source, root_kind, temp_dir, aborted, a_pending>>
    /\ UNCHANGED <<guard_vars, parse_vars, file_vars, rescan_vars, job_vars, summary_vars, scan_vars>>

\* _analyze_local_path after its await (lines 186-191)
LocalReturn ==
    /\ a_pc = "scanning"
    /\ a_input_type = "local_path"
    /\ w_pc = "done"
    /\ a_result' = [status |-> "returned", result |-> w_result, source |-> a_source,
                    source_type |-> "local", resolved_path |-> directory_path]
    /\ a_pc' = "exited"
    /\ UNCHANGED <<a_input_type, a_source, root_kind, temp_dir, aborted, a_pending>>
    /\ UNCHANGED <<guard_vars, parse_vars, file_vars, walk_vars, rescan_vars, job_vars, summary_vars, scan_vars>>

\* _analyze_github_repo: tempfile.mkdtemp() (line 91)
MakeTempDir ==
    /\ a_pc = "start"
    /\ a_input_type = "github_url"
    /\ temp_dir' = "exists"
    /\ a_pc' = "cloning"
    /\ UNCHANGED <<a_input_type, a_source, root_kind, aborted, a_pending, a_result>>
    /\ UNCHANGED <<guard_vars, parse_vars, file_vars, walk_vars, rescan_vars, job_vars, summary_vars, scan_vars>>

\* git.Repo.clone_from (line 96): it fills the directory and the scan begins
\* (line 99), or it raises
Clone ==
    /\ a_pc = "cloning"
    /\ \E cloned \in BOOLEAN :
          IF cloned
          THEN /\ BeginWalk(TempDirPath)
               /\ a_pc' = "scanning"
               /\ UNCHANGED a_pending
          ELSE /\ a_pending' = Raised("GitCommandError")
               /\ a_pc' = "finally"
               /\ UNCHANGED walk_vars
    /\ UNCHANGED <<a_input_type, a_source, root_kind, temp_dir, aborted, a_result>>
    /\ UNCHANGED <<guard_vars, parse_vars, file_vars, rescan_vars, job_vars, summary_vars, scan_vars>>

\* _analyze_github_repo after its await (lines 99-103): the return value is
\* on its way out
GithubReturn ==
    /\ a_pc = "scanning"
    /\ a_input_type = "github_url"
    /\ w_pc = "done"
    /\ a_pending' = [status |-> "returned", result |-> w_result, source |-> a_source,
                     source_type |-> "github"]
    /\ a_pc' = "finally"
    /\ UNCHANGED <<a_input_type, a_source, root_kind, temp_dir, aborted, a_result>>
    /\ UNCHANGED <<guard_vars, parse_vars, file_vars, walk_vars, rescan_vars, job_vars, summary_vars, scan_vars>>

\* the awaited scan ends with an exception that no entry of the tree caused:
\* the task is cancelled, or the interpreter raises (lines 99 and 186)
Abort ==
    /\ a_pc = "scanning"
    /\ w_pc # "done"
    /\ \E error \in {"CancelledError", "MemoryError"} :
          /\ aborted' = error
          /\ IF a_input_type = "github_url"
             THEN /\ a_pending' = Raised(error)
                  /\ a_pc' = "finally"
                  /\ UNCHANGED a_result
             ELSE /\ a_result' = Raised(error)
                  /\ a_pc' = "exited"
                  /\ UNCHANGED a_pending
    /\ w_pc' = "aborted"
    /\ UNCHANGED <<request, directory_path, scan_tree, stack, w_root, w_dirs, safe_dirs,
                   w_filenames, files, directories, total_lines, file_count, technologies,
                   w_result>>
    /\ UNCHANGED <<a_input_type, a_source, root_kind, temp_dir>>
    /\ UNCHANGED <<guard_vars, parse_vars, file_vars, rescan_vars, job_vars, summary_vars, scan_vars>>

\* the finally clause of _analyze_github_repo (lines 108-111), then the
\* return value or the exception leaves the call
RunFinally ==
    /\ a_pc = "finally"
    /\ temp_dir' = finally_cleanup(temp_dir, a_pending)
    /\ a_result' = a_pending
    /\ a_pc' = "exited"
    /\ UNCHANGED <<a_input_type, a_source, root_kind, aborted, a_pending>>
    /\ UNCHANGED <<guard_vars, parse_vars, file_vars, walk_vars, rescan_vars, job_vars, summary_vars, scan_vars>>

(***************************************************************************)
(* The sources analyze_codebase is exercised on                            *)
(***************************************************************************)
github_url == <<"h","t","t","p","s",":","/","/","g","i","t","h","u","b",".","c","o","m","/","o","/","r">>

\* what a source directory or a clone holds: nothing; files whose scan fails
\* beside a sound one; a directory, a linked directory and a file whose parse
\* raises
EntryTrees ==
    { Listing(<<>>, <<>>),
      Listing(<<>>, <<wf_gone, wf_locked, wf_main>>),
      Listing(<<DirEntry(d_src, FALSE, Listing(<<>>, <<wf_main>>)),
                DirEntry(d_lnk, TRUE, Listing(<<>>, <<wf_notes>>))>>, <<wf_app, wf_link>>) }

InitAnalyze ==
    /\ a_input_type \in {"local_path", "github_url"}
    /\ a_source \in (IF a_input_type = "local_path" THEN ScanRoots ELSE {github_url})
    /\ root_kind \in (IF a_input_type = "local_path"
                      THEN {"directory", "file", "missing"} ELSE {"directory"})
    /\ a_pc = "start"
    /\ temp_dir = "none"
    /\ aborted = ""
    /\ a_pending = EntryIdle
    /\ a_result = EntryIdle
    /\ request \in [max_files : {<<>>, <<1>>}, include_documentation : BOOLEAN]
    /\ directory_path = <<>>
    /\ scan_tree \in (IF root_kind = "directory" THEN EntryTrees ELSE {Listing(<<>>, <<>>)})
    /\ w_pc = "idle"
    /\ stack = <<>>
    /\ w_root = <<>>
    /\ w_dirs = <<>>
    /\ safe_dirs = <<>>
    /\ w_filenames = <<>>
    /\ files = <<>>
    /\ directories = <<>>
    /\ total_lines = 0
    /\ file_count = 0
    /\ technologies = {}
    /\ w_result = WalkIdle
    /\ IdleGuard
    /\ IdleParse
    /\ IdleFile
    /\ IdleRescan
    /\ IdleJobs
    /\ IdleSummary
    /\ IdleScans

NextAnalyze ==
    \/ AnalyzeLocalPath
    \/ LocalReturn
    \/ MakeTempDir
    \/ Clone
    \/ GithubReturn
    \/ Abort
    \/ RunFinally
    \/ VisitDirectory
    \/ FilterDir
    \/ ScanFile
    \/ LeaveDirectory
    \/ Assemble

SpecAnalyze == InitAnalyze /\ [][NextAnalyze]_vars

(***************************************************************************)
(* Walking the same directory again.  The directory is unchanged; what may *)
(* change from one walk to the next is the order in which os.walk lists    *)
(* the entries of each directory (os.scandir promises none).               *)
(***************************************************************************)
MaxRescans == 1

\* the orders in which a sequence of distinct entries may be listed
Orderings(s) ==
    {t \in [1..Len(s) -> {s[i] : i \in 1..Len(s)}] :
        \A i \in 1..Len(s) : \E j \in 1..Len(s) : t[j] = s[i]}

\* the listings of the same directory tree, every directory of it listed in
\* some order
RECURSIVE Reorderings(_)
Reorderings(listing) ==
    LET n == Len(listing.dirs)
        below == [i \in 1..n |-> Reorderings(listing.dirs[i].sub)]
        choices == {c \in [1..n -> UNION {below[i] : i \in 1..n}] :
                       \A i \in 1..n : c[i] \in below[i]}
        Relisted(c) == [i \in 1..n |-> [listing.dirs[i] EXCEPT !.sub = c[i]]]
    IN  {Listing(ds, fs) :
            ds \in UNION {Orderings(Relisted(c)) : c \in choices},
            fs \in Orderings(listing.files)}

\* _analyze_directory is called again on the directory it has walked
\* (lines 195-202): the result of the finished walk is kept aside
Rescan ==
    /\ w_pc = "done"
    /\ Len(runs) < MaxRescans
    /\ runs' = Append(runs, w_result)
    /\ scan_tree' \in Reorderings(scan_tree)
    /\ w_pc' = "walk"
    /\ stack' = << <<>> >>
    /\ w_root' = <<>>
    /\ w_dirs' = <<>>
    /\ safe_dirs' = <<>>
    /\ w_filenames' = <<>>
    /\ files' = <<>>
    /\ directories' = <<>>
    /\ total_lines' = 0
    /\ file_count' = 0
    /\ technologies' = {}
    /\ w_result' = WalkIdle
    /\ UNCHANGED <<request, directory_path>>
    /\ UNCHANGED <<guard_vars, parse_vars, file_vars, entry_vars, job_vars, summary_vars, scan_vars>>

\* the directories walked twice: up to two files in the root, beside no
\* directory, one, or two, each holding one file
RescanTrees ==
    {Listing(ds, fs) :
        ds \in { <<>>,
                 <<DirEntry(d_src, FALSE, Listing(<<>>, <<wf_main>>))>>,
                 <<DirEntry(d_src, FALSE, Listing(<<>>, <<wf_main>>)),
                   DirEntry(d_lib, FALSE, Listing(<<>>, <<wf_notes>>))>> },
        fs \in DistinctSeqs({wf_main, wf_notes, wf_app}, 2)}

InitRescan ==
    /\ request \in [max_files : MaxFilesValues, include_documentation : BOOLEAN]
    /\ directory_path = <<seg_tmp, seg_proj>>
    /\ scan_tree \in RescanTrees
    /\ w_pc = "walk"
    /\ stack = << <<>> >>
    /\ w_root = <<>>
    /\ w_dirs = <<>>
    /\ safe_dirs = <<>>
    /\ w_filenames = <<>>
    /\ files = <<>>
    /\ directories = <<>>
    /\ total_lines = 0
    /\ file_count = 0
    /\ technologies = {}
    /\ w_result = WalkIdle
    /\ runs = <<>>
    /\ IdleGuard
    /\ IdleParse
    /\ IdleFile
    /\ IdleEntry
    /\ IdleJobs
    /\ IdleSummary
    /\ IdleScans

NextRescan ==
    \/ VisitDirectory
    \/ FilterDir
    \/ ScanFile
    \/ LeaveDirectory
    \/ Assemble
    \/ Rescan

SpecRescan == InitRescan /\ [][NextRescan]_vars

(***************************************************************************)
(* src/main.py: the job table analysis_results and the background task     *)
(* perform_analysis.  An analysis_id is the position of the job in the     *)
(* table: uuid4 gives every job an identifier no other job has.  A task    *)
(* stands at queued, analyzing (awaiting analyze_codebase), documenting    *)
(* (awaiting generate_documentation), diagramming (awaiting the two        *)
(* diagram generators) or finished, and keeps the locals of the call.      *)
(***************************************************************************)
MaxJobs == 2
MaxClock == 2

\* include_documentation and include_diagrams of the request
JobRequests == [include_documentation : BOOLEAN, include_diagrams : BOOLEAN]

\* lines 64-69
processing_record(now) ==
    [status |-> "processing", started_at |-> now, progress |-> 0,
     message |-> "Analysis started"]

\* lines 125-126, 129-130, 137-138, 145-146: progress and message are updated
\* in place
progress_record(old, progress, message) ==
    [old EXCEPT !.progress = progress, !.message = message]

\* lines 151-168
completed_record(old, now, data) ==
    [status |-> "completed", started_at |-> old.started_at, completed_at |-> now,
     progress |-> 100, message |-> "Analysis completed successfully", data |-> data]

\* the failure stamped as if the job had started when it failed
failed_record_restamped(old, now, error) ==
    [status |-> "failed", started_at |-> now, completed_at |-> now,
     progress |-> 0, error |-> error]

\* lines 174-180
failed_record(old, now, error) ==
    [status |-> "failed", started_at |-> old.started_at, completed_at |-> now,
     progress |-> 0, error |-> error]

\* lines 157-167: the AnalysisResponse of the job
analysis_response(analysis_id, documented, diagrams) ==
    [analysis_id |-> analysis_id,
     project_overview |-> IF documented THEN "overview" ELSE "",
     file_structure |-> [of |-> analysis_id],
     sequence_diagram |-> IF diagrams THEN <<"sequenceDiagram">> ELSE <<>>,
     class_diagram |-> IF diagrams THEN <<"classDiagram">> ELSE <<>>]

Update(table, analysis_id, record) == [table EXCEPT ![analysis_id] = record]

\* the datetime.now() of a handler: the clock does not run backwards
Tick ==
    /\ clock < MaxClock
    /\ clock' = clock + 1
    /\ UNCHANGED <<analysis_results, job_requests, tasks, response, http_request>>
    /\ UNCHANGED <<guard_vars, parse_vars, file_vars, walk_vars, entry_vars, rescan_vars, summary_vars, scan_vars>>

\* POST /analyze (lines 54-88)
StartAnalysis ==
    /\ Len(analysis_results) < MaxJobs
    /\ \E job_request \in JobRequests :
          LET analysis_id == Len(analysis_results) + 1 IN
          /\ analysis_results' = Append(analysis_results, processing_record(clock))
          /\ job_requests' = Append(job_requests, job_request)
          /\ tasks' = Append(tasks, "queued")
          /\ response' = [status_code |-> 200, analysis_id |-> analysis_id,
                          status |-> "processing"]
    /\ http_request' = [endpoint |-> "analyze"]
    /\ UNCHANGED clock
    /\ UNCHANGED <<guard_vars, parse_vars, file_vars, walk_vars, entry_vars, rescan_vars, summary_vars, scan_vars>>

\* what perform_analysis does once the last awaited step has returned:
\* the next step is announced, or the job is completed (lines 134-168)
AfterStep(analysis_id, done) ==
    LET job_request == job_requests[analysis_id]
        old == analysis_results[analysis_id]
    IN  IF done = "analyzing" /\ job_request.include_documentation
        THEN /\ analysis_results' = Update(analysis_results, analysis_id,
                    progress_record(old, 50, "Generating AI documentation..."))
             /\ tasks' = Update(tasks, analysis_id, "documenting")
        ELSE IF done # "diagramming" /\ job_request.include_diagrams
        THEN /\ analysis_results' = Update(analysis_results, analysis_id,
                    progress_record(old, 80, "Creating sequence and class diagrams..."))
             /\ tasks' = Update(tasks, analysis_id, "diagramming")
        ELSE /\ analysis_results' = Update(analysis_results, analysis_id,
                    completed_record(old, clock,
                        analysis_response(analysis_id, job_request.include_documentation,
                                          job_request.include_diagrams)))
             /\ tasks' = Update(tasks, analysis_id, "finished")

\* the except clause of perform_analysis (lines 172-180)
Fail(analysis_id, error) ==
    /\ analysis_results' = Update(analysis_results, analysis_id,
            failed_record(analysis_results[analysis_id], clock, error))
    /\ tasks' = Update(tasks, analysis_id, "finished")

\* perform_analysis up to its first await (lines 123-132)
BeginAnalysis ==
    /\ \E analysis_id \in 1..Len(tasks) :
          /\ tasks[analysis_id] = "queued"
          /\ analysis_results' = Update(analysis_results, analysis_id,
                 progress_record(analysis_results[analysis_id], 20,
                                 "Analyzing codebase structure..."))
          /\ tasks' = Update(tasks, analysis_id, "analyzing")
    /\ UNCHANGED <<job_requests, clock, response, http_request>>
    /\ UNCHANGED <<guard_vars, parse_vars, file_vars, walk_vars, entry_vars, rescan_vars, summary_vars, scan_vars>>

\* analyze_codebase returns or raises (line 132)
CodebaseAnalyzed ==
    /\ \E analysis_id \in 1..Len(tasks), raised \in BOOLEAN :
          /\ tasks[analysis_id] = "analyzing"
          /\ IF raised
             THEN Fail(analysis_id, "Error analyzing codebase")
             ELSE AfterStep(analysis_id, "analyzing")
    /\ UNCHANGED <<job_requests, clock, response, http_request>>
    /\ UNCHANGED <<guard_vars, parse_vars, file_vars, walk_vars, entry_vars, rescan_vars, summary_vars, scan_vars>>

\* generate_documentation returns or raises (line 139)
DocumentationGenerated ==
    /\ \E analysis_id \in 1..Len(tasks), raised \in BOOLEAN :
          /\ tasks[analysis_id] = "documenting"
          /\ IF raised
             THEN Fail(analysis_id, "Error generating documentation")
             ELSE AfterStep(analysis_id, "documenting")
    /\ UNCHANGED <<job_requests, clock, response, http_request>>
    /\ UNCHANGED <<guard_vars, parse_vars, file_vars, walk_vars, entry_vars, rescan_vars, summary_vars, scan_vars>>

\* the diagram generators return; they answer a fallback diagram instead of
\* raising (lines 147-148)
DiagramsGenerated ==
    /\ \E analysis_id \in 1..Len(tasks) :
          /\ tasks[analysis_id] = "diagramming"
          /\ AfterStep(analysis_id, "diagramming")
    /\ UNCHANGED <<job_requests, clock, response, http_request>>
    /\ UNCHANGED <<guard_vars, parse_vars, file_vars, walk_vars, entry_vars, rescan_vars, summary_vars, scan_vars>>

\* GET /analysis/{analysis_id}/status (lines 90-104): what the handler answers
get_analysis_status(table, analysis_id) ==
    IF analysis_id \notin DOMAIN table
    THEN [status_code |-> 404, detail |-> "Analysis not found"]
    ELSE [status_code |-> 200, analysis_id |-> analysis_id,
          status |-> table[analysis_id].status]

\* the result handed out whatever the status of the job
get_analysis_result_unchecked(table, analysis_id) ==
    IF analysis_id \notin DOMAIN table
    THEN [status_code |-> 404, detail |-> "Analysis not found"]
    ELSE IF table[analysis_id].status = "failed"
    THEN [status_code |-> 500, detail |-> table[analysis_id].error]
    ELSE [status_code |-> 200,
          data |-> IF "data" \in DOMAIN table[analysis_id]
                   THEN table[analysis_id].data
                   ELSE <<>>]

\* GET /analysis/{analysis_id}/result (lines 106-119): what the handler answers
get_analysis_result(table, analysis_id) ==
    IF analysis_id \notin DOMAIN table
    THEN [status_code |-> 404, detail |-> "Analysis not found"]
    ELSE IF table[analysis_id].status = "processing"
    THEN [status_code |-> 202, detail |-> "Analysis still in progress"]
    ELSE IF table[analysis_id].status = "failed"
    THEN [status_code |-> 500,
          detail |-> IF "error" \in DOMAIN table[analysis_id]
                     THEN table[analysis_id].error
                     ELSE "Analysis failed"]
    ELSE [status_code |-> 200, data |-> table[analysis_id].data]

\* the analysis_id of a request is any text: one of the table or none of it
RequestedIds == 1..(MaxJobs + 1)

GetAnalysisStatus ==
    /\ \E analysis_id \in RequestedIds :
          /\ response' = get_analysis_status(analysis_results, analysis_id)
          /\ http_request' = [endpoint |-> "status", analysis_id |-> analysis_id]
    /\ UNCHANGED <<analysis_results, job_requests, tasks, clock>>
    /\ UNCHANGED <<guard_vars, parse_vars, file_vars, walk_vars, entry_vars, rescan_vars, summary_vars, scan_vars>>

GetAnalysisResult ==
    /\ \E analysis_id \in RequestedIds :
          /\ response' = get_analysis_result(analysis_results, analysis_id)
          /\ http_request' = [endpoint |-> "result", analysis_id |-> analysis_id]
    /\ UNCHANGED <<analysis_results, job_requests, tasks, clock>>
    /\ UNCHANGED <<guard_vars, parse_vars, file_vars, walk_vars, entry_vars, rescan_vars, summary_vars, scan_vars>>

InitJobs ==
    /\ IdleJobs
    /\ IdleSummary
    /\ IdleScans
    /\ IdleGuard
    /\ IdleParse
    /\ IdleFile
    /\ IdleWalk
    /\ IdleEntry
    /\ IdleRescan

\* the steps that write the job table
NextJobs ==
    \/ Tick
    \/ StartAnalysis
    \/ BeginAnalysis
    \/ CodebaseAnalyzed
    \/ DocumentationGenerated
    \/ DiagramsGenerated

SpecJobs == InitJobs /\ [][NextJobs]_vars

\* the whole service: the POST handler, the background tasks and the two GET
\* handlers, which read the table and write nothing but their answer.  No
\* handler answers by the time of day, so the clock stands still here.
NextService ==
    \/ StartAnalysis
    \/ BeginAnalysis
    \/ CodebaseAnalyzed
    \/ DocumentationGenerated
    \/ DiagramsGenerated
    \/ GetAnalysisStatus
    \/ GetAnalysisResult

SpecService == InitJobs /\ [][NextService]_vars

(***************************************************************************)
(* Several jobs at once.  codebase_analyzer is one object shared by all    *)
(* background tasks (src/main.py line 35), but _analyze_directory keeps    *)
(* files, directories, total_lines, technologies and file_count in locals  *)
(* of the call (lines 195-199): scans holds, per analysis_id, the locals   *)
(* of that job's call.  One step of a scan is one iteration of the         *)
(* os.walk loop.  No await inside the loop suspends (the coroutines        *)
(* awaited there hold no suspension point), so the steps of different jobs *)
(* interleave here at least as finely as the event loop interleaves them.  *)
(***************************************************************************)
\* lines 193-200: the locals of a fresh call
new_scan(directory_path_, scan_tree_, request_) ==
    [request |-> request_, directory_path |-> directory_path_, scan_tree |-> scan_tree_,
     pc |-> "walk", stack |-> << <<>> >>, files |-> <<>>, directories |-> <<>>,
     total_lines |-> 0, file_count |-> 0, technologies |-> {},
     result |-> WalkIdle]

\* the loop over filenames (lines 242-275) on the accumulators of one scan
RECURSIVE scan_files(_, _, _, _, _)
scan_files(scan, filenames, rel_root, cwd_, links) ==
    IF filenames = <<>> THEN scan
    ELSE IF limit_reached(scan.request.max_files, scan.file_count) THEN scan
    ELSE LET file == Head(filenames)
             rel == rel_root \o <<file.name>>
             passed == /\ ~file_skipped(file.name)
                       /\ ~is_link(file)
                       /\ ~validation_fails(scan.directory_path \o rel, cwd_, links)
             file_info == IF passed
                          THEN analyze_file(file, rel, scan.request.include_documentation)
                          ELSE <<>>
             next == IF file_info = <<>> THEN scan
                     ELSE [scan EXCEPT
                              !.files = Append(@, file_info[1]),
                              !.total_lines = add_lines(@, file_info[1]),
                              !.file_count = @ + 1,
                              !.technologies =
                                  IF file_info[1].language # <<>>
                                  THEN @ \cup {file_info[1].language}
                                  ELSE @]
         IN  scan_files(next, Tail(filenames), rel_root, cwd_, links)

\* one iteration of the os.walk loop (lines 202-279), or the assembly of the
\* result once the loop is left (lines 281-301)
walk_iteration(scan, cwd_, links) ==
    IF scan.pc = "assemble" \/ scan.stack = <<>>
    THEN [scan EXCEPT
             !.pc = "done",
             !.result = build_result(scan.directory_path, scan.files, scan.directories,
                                     scan.total_lines, scan.technologies)]
    ELSE LET rel == Head(scan.stack)
             listing == Lookup(scan.scan_tree, rel)
             Kept(d) == /\ ~dir_excluded(d.name)
                        /\ ~is_link(d)
                        /\ ~validation_fails(scan.directory_path \o rel \o <<d.name>>,
                                             cwd_, links)
             safe == SelectSeq(listing.dirs, Kept)
             RECURSIVE Recorded(_, _)
             Recorded(directories_, kept) ==
                 IF kept = <<>> THEN directories_
                 ELSE Recorded(record_directory(directories_, rel, Head(kept).name),
                               Tail(kept))
             filtered == [scan EXCEPT !.directories = Recorded(@, safe)]
             scanned == scan_files(filtered, listing.files, rel, cwd_, links)
             NotLink(d) == ~d.link
             descend == SelectSeq(safe, NotLink)
         IN  IF validation_fails(scan.directory_path \o rel, cwd_, links)
             THEN [scan EXCEPT !.stack = Tail(@)]
             ELSE IF limit_reached(scanned.request.max_files, scanned.file_count)
             THEN [scanned EXCEPT !.pc = "assemble"]
             ELSE [scanned EXCEPT
                      !.stack = [i \in 1..Len(descend) |-> rel \o <<descend[i].name>>]
                                \o Tail(@)]

\* the accumulators kept on the shared analyzer object: every call works on
\* those of the first scan there is
scan_locals_shared(scans_, analysis_id) ==
    LET first == scans_[CHOOSE i \in DOMAIN scans_ : \A j \in DOMAIN scans_ : i <= j]
    IN  [scans_[analysis_id] EXCEPT
            !.files = first.files,
            !.directories = first.directories,
            !.total_lines = first.total_lines,
            !.file_count = first.file_count,
            !.technologies = first.technologies]

\* lines 195-199: the locals a call works on are its own
scan_locals(scans_, analysis_id) == scans_[analysis_id]

MaxScanFiles == 1

\* what a job's source holds and the max_files of its request
ScanInputs ==
    { [directory_path |-> <<seg_tmp, seg_proj>>,
       scan_tree |-> Listing(<<DirEntry(d_src, FALSE, Listing(<<>>, <<wf_main>>))>>,
                             <<wf_app>>),
       max_files |-> <<>>],
      [directory_path |-> <<seg_tmp, seg_tmpdir>>,
       scan_tree |-> Listing(<<>>, <<wf_notes, wf_main>>),
       max_files |-> <<MaxScanFiles>>] }

\* analyze_codebase is entered (line 132): the call raises before the walk
\* (the clone fails, the root is refused), or the walk begins
OpenScan ==
    /\ \E analysis_id \in 1..Len(tasks) :
          /\ tasks[analysis_id] = "analyzing"
          /\ analysis_id \notin DOMAIN scans
          /\ \/ /\ Fail(analysis_id, "Error analyzing codebase")
                /\ UNCHANGED scans
             \/ /\ \E input \in ScanInputs :
                      scans' = [i \in DOMAIN scans \cup {analysis_id} |->
                                   IF i = analysis_id
                                   THEN new_scan(input.directory_path, input.scan_tree,
                                           [max_files |-> input.max_files,
                                            include_documentation |->
                                                job_requests[analysis_id].include_documentation])
                                   ELSE scans[i]]
                /\ UNCHANGED <<analysis_results, tasks>>
    /\ UNCHANGED <<job_requests, clock, response, http_request>>
    /\ UNCHANGED <<guard_vars, parse_vars, file_vars, walk_vars, entry_vars, rescan_vars, summary_vars>>

\* the scan of one job goes one step on
WalkStep ==
    /\ \E analysis_id \in DOMAIN scans :
          /\ tasks[analysis_id] = "analyzing"
          /\ scans[analysis_id].pc # "done"
          /\ scans' = [scans EXCEPT
                          ![analysis_id] =
                              walk_iteration(scan_locals(scans, analysis_id), cwd, symlinks)]
    /\ UNCHANGED job_vars
    /\ UNCHANGED <<guard_vars, parse_vars, file_vars, walk_vars, entry_vars, rescan_vars, summary_vars>>

\* analyze_codebase returns the result of the walk (line 132); the locals of
\* the call are gone with it
ScanReturned ==
    /\ \E analysis_id \in DOMAIN scans :
          /\ tasks[analysis_id] = "analyzing"
          /\ scans[analysis_id].pc = "done"
          /\ AfterStep(analysis_id, "analyzing")
          /\ scans' = [i \in DOMAIN scans \ {analysis_id} |-> scans[i]]
    /\ UNCHANGED <<job_requests, clock, response, http_request>>
    /\ UNCHANGED <<guard_vars, parse_vars, file_vars, walk_vars, entry_vars, rescan_vars, summary_vars>>

InitConcurrent ==
    /\ IdleJobs
    /\ IdleScans
    /\ IdleGuard
    /\ IdleParse
    /\ IdleFile
    /\ IdleWalk
    /\ IdleEntry
    /\ IdleRescan
    /\ IdleSummary

NextConcurrent ==
    \/ StartAnalysis
    \/ BeginAnalysis
    \/ OpenScan
    \/ WalkStep
    \/ ScanReturned
    \/ DocumentationGenerated
    \/ DiagramsGenerated

SpecConcurrent == InitConcurrent /\ [][NextConcurrent]_vars

(***************************************************************************)
(* The summaries and their aggregation: _analyze_file hands the result of  *)
(* each parse to _generate_file_summary (lines 336-339), and the walk      *)
(* hands the FileInfo list to _extract_code_structure (line 300).  A       *)
(* source is what one file gave: its relative path, its language and the   *)
(* code_info of its parse (empty when the parse was not asked for or       *)
(* failed).                                                                *)
(***************************************************************************)
MaxFunctions == 11
MaxImports == 6
MaxRecords == 2

\* the names f1, f2, ... counted down, so that the order of extraction is not
\* the order of the names
FunctionNames(n) == [i \in 1..n |-> <<"f">> \o IntText(n + 1 - i)]

ImportTexts(n) == [i \in 1..n |-> <<"i","m","p","o","r","t"," ","m">> \o IntText(i)]

SummaryClass(name, methods) == [name |-> name, methods |-> methods]

ClassLists ==
    { <<>>,
      <<SummaryClass(n_Bar, <<n_baz>>)>>,
      <<SummaryClass(n_Bar, <<>>), SummaryClass(n_Nested, <<n_deep, n_baz>>)>> }

Source(path, language, code_info) ==
    [path |-> path, language |-> language, code_info |-> code_info]

n_a_py == <<"a",".","p","y">>
n_b_py == <<"b",".","p","y">>
n_c_py == <<"c",".","p","y">>
n_app_js == <<"a","p","p",".","j","s">>
n_lib_js == <<"l","i","b",".","j","s">>
n_notes_md == <<"n","o","t","e","s",".","m","d">>
n_Classes_py == <<"C","l","a","s","s","e","s",".","p","y">>
n_Classes == <<"C","l","a","s","s","e","s">>
n_MyClasses == <<"M","y","C","l","a","s","s","e","s">>
txt_import_Classes ==
    <<"i","m","p","o","r","t"," ","C","l","a","s","s","e","s"," ","f","r","o","m"," ",
      "'","n","o","d","e",":","f","s","'">>

\* one file with up to MaxFunctions functions and MaxImports imports
WideSources ==
    { Source(<<n_a_py>>, language,
             <<[classes |-> classes, functions |-> FunctionNames(n),
                imports |-> ImportTexts(m)]>>) :
        language \in {lang_python, lang_javascript}, classes \in ClassLists,
        n \in 0..MaxFunctions, m \in 0..MaxImports }

\* the files of a small project: with and without classes, with no summary,
\* of a language that is not parsed, and with the text 'Classes' in the
\* path, in a class name and in an import
NarrowSources ==
    { Source(<<n_a_py>>, lang_python,
             <<[classes |-> <<SummaryClass(n_Bar, <<n_baz>>)>>, functions |-> <<n_foo>>,
                imports |-> <<txt_import_os>>]>>),
      Source(<<n_b_py>>, lang_python,
             <<[classes |-> <<>>, functions |-> <<n_foo>>, imports |-> <<>>]>>),
      Source(<<n_app_js>>, lang_javascript,
             <<[classes |-> <<SummaryClass(n_Bar, <<>>), SummaryClass(n_Nested, <<n_deep>>)>>,
                functions |-> <<>>, imports |-> <<txt_js_import>>]>>),
      Source(<<n_c_py>>, lang_python, <<>>),
      Source(<<n_notes_md>>, <<"m","a","r","k","d","o","w","n">>, <<>>),
      Source(<<n_Classes_py>>, lang_python,
             <<[classes |-> <<SummaryClass(n_Bar, <<n_baz>>)>>, functions |-> <<>>,
                imports |-> <<>>]>>),
      Source(<<n_Classes, n_a_py>>, lang_python,
             <<[classes |-> <<>>, functions |-> <<n_foo>>, imports |-> <<>>]>>),
      Source(<<n_b_py>>, lang_python,
             <<[classes |-> <<SummaryClass(n_MyClasses, <<>>), SummaryClass(n_Bar, <<>>)>>,
                functions |-> <<>>, imports |-> <<>>]>>),
      Source(<<n_lib_js>>, lang_javascript,
             <<[classes |-> <<>>, functions |-> <<>>,
                imports |-> <<txt_import_Classes>>]>>) }

\* a walk records no path twice
DistinctPaths(sources) ==
    \A i, j \in 1..Len(sources) : sources[i].path = sources[j].path => i = j

SummaryInputs ==
    {<<w>> : w \in WideSources}
    \cup {sources \in SeqsUpTo(NarrowSources, MaxRecords) : DistinctPaths(sources)}

InitSummary ==
    /\ x_sources \in SummaryInputs
    /\ x_files = <<>>
    /\ x_code_analysis = [status |-> "idle"]
    /\ IdleGuard
    /\ IdleParse
    /\ IdleFile
    /\ IdleWalk
    /\ IdleEntry
    /\ IdleRescan
    /\ IdleJobs
    /\ IdleScans

\* lines 335-348: the FileInfo of the next file, with the summary of its parse
GenerateFileSummary ==
    /\ Len(x_files) < Len(x_sources)
    /\ LET source == x_sources[Len(x_files) + 1]
           documentation ==
               IF source.code_info # <<>>
               THEN <<generate_file_summary(source.code_info[1], source.path,
                                            source.language)>>
               ELSE <<>>
       IN  x_files' = Append(x_files, [path |-> source.path,
                                       language |-> source.language,
                                       documentation |-> documentation])
    /\ UNCHANGED <<x_sources, x_code_analysis>>
    /\ UNCHANGED <<guard_vars, parse_vars, file_vars, walk_vars, entry_vars, rescan_vars, job_vars, scan_vars>>

\* line 300: the list is aggregated once every file is in it
ExtractCodeStructure ==
    /\ Len(x_files) = Len(x_sources)
    /\ x_code_analysis.status = "idle"
    /\ x_code_analysis' = [status |-> "returned",
                           code_analysis |-> extract_code_structure(x_files)]
    /\ UNCHANGED <<x_sources, x_files>>
    /\ UNCHANGED <<guard_vars, parse_vars, file_vars, walk_vars, entry_vars, rescan_vars, job_vars, scan_vars>>

NextSummary ==
    \/ GenerateFileSummary
    \/ ExtractCodeStructure

SpecSummary == InitSummary /\ [][NextSummary]_vars

(***************************************************************************)
(* Properties of the walk (Spec)                                           *)
(***************************************************************************)
RECURSIVE SumLines(_)
SumLines(infos) == IF infos = <<>> THEN 0 ELSE Head(infos).lines + SumLines(Tail(infos))

Range(s) == {s[i] : i \in 1..Len(s)}

RecordedPaths == {files[i].path : i \in 1..Len(files)}

Returned == w_result.status = "returned"

RootRejected == validate_path_security(directory_path, cwd, symlinks).status = "raised"

\* the directories the walk has reached: yielded, waiting to be yielded
VisitedOrPending == Range(stack) \cup (IF w_pc \in {"dirs", "files"} THEN {w_root} ELSE {})

\* C1: total_files is the number of FileInfo records in files and total_lines
\* the sum of their lines, in the ProjectStructure and in the top-level keys
\* of the result; the running totals never drift from files.
C1_TotalsMatchFiles ==
    /\ total_lines = SumLines(files)
    /\ file_count = Len(files)
    /\ Returned =>
        /\ w_result.structure.files = files
        /\ w_result.structure.total_files = Len(w_result.structure.files)
        /\ w_result.total_files = Len(w_result.structure.files)
        /\ w_result.structure.total_lines = SumLines(w_result.structure.files)
        /\ w_result.total_lines = SumLines(w_result.structure.files)

W_C1_SeveralFiles ==
    Returned /\ w_result.total_files = 3 /\ w_result.total_lines > 3

\* the number of files of the listing that would each produce a FileRecord in
\* a walk without a limit
RECURSIVE SumOver(_)
SumOver(numbers) == IF numbers = <<>> THEN 0 ELSE Head(numbers) + SumOver(Tail(numbers))
RECURSIVE EligibleCount(_, _, _)
EligibleCount(listing, rel, include) ==
    LET Eligible(f) ==
            /\ ~file_skipped(f.name)
            /\ ~f.link
            /\ analyze_file(f, rel \o <<f.name>>, include) # <<>>
        Walked(d) == ~dir_excluded(d.name) /\ ~d.link
        below == SelectSeq(listing.dirs, Walked)
    IN  Len(SelectSeq(listing.files, Eligible))
        + SumOver([i \in 1..Len(below) |->
                      EligibleCount(below[i].sub, rel \o <<below[i].name>>, include)])

EligibleInTree ==
    IF RootRejected THEN 0
    ELSE EligibleCount(scan_tree, <<>>, request.include_documentation)

\* C3: with max_files a non-negative integer N, a tree with more than N
\* eligible files yields exactly N records, a tree with N or fewer eligible
\* files yields all of them.
C3_ExactlyMaxFiles ==
    (Returned /\ request.max_files # <<>>) =>
        w_result.total_files =
            (IF EligibleInTree > request.max_files[1]
             THEN request.max_files[1] ELSE EligibleInTree)

\* the relative paths of the tree that are symbolic links or lie below one
RECURSIVE LinkedPaths(_, _, _)
LinkedPaths(listing, rel, under) ==
    {rel \o <<f.name>> : f \in {g \in Range(listing.files) : under \/ g.link}}
    \cup {rel \o <<d.name>> : d \in {e \in Range(listing.dirs) : under \/ e.link}}
    \cup UNION {LinkedPaths(d.sub, rel \o <<d.name>>, under \/ d.link) : d \in Range(listing.dirs)}

\* C4: no symbolic link appears in files or directories, and nothing that is
\* reachable only through a symbolic link is descended into or scanned.
C4_NoSymlinks ==
    LET linked == LinkedPaths(scan_tree, <<>>, FALSE) IN
    /\ RecordedPaths \cap linked = {}
    /\ Range(directories) \cap linked = {}
    /\ VisitedOrPending \cap linked = {}
    /\ Returned =>
        /\ Range(w_result.structure.directories) \cap linked = {}
        /\ \A i \in 1..Len(w_result.structure.files) :
              w_result.structure.files[i].path \notin linked

W_C4_LinksInTree ==
    /\ Returned /\ ~RootRejected /\ request.max_files = <<>>
    /\ <<d_src>> \in Range(directories)
    /\ <<d_src, d_lnk, wf_main.name>> \in LinkedPaths(scan_tree, <<>>, FALSE)

\* the guard of some step of the walk holds: the walk has not stopped short of
\* its return
StepAvailable ==
    \/ w_pc = "walk"
    \/ w_pc = "dirs" /\ w_dirs # <<>>
    \/ w_pc = "files"
    \/ w_pc = "assemble"

\* C5: a directory or file whose PathGuard validation fails is absent from the
\* result and is not descended into; the walk goes on and returns an inventory.
C5_ValidationFailureSkips ==
    LET Fails(rel) == validate_path_security(directory_path \o rel, cwd, symlinks).status = "raised"
    IN  /\ \A rel \in RecordedPaths \cup Range(directories) : ~Fails(rel)
        /\ (w_pc \in {"dirs", "files"}) => ~Fails(w_root)
        /\ (w_pc # "done") => StepAvailable
        /\ (w_pc = "done") => Returned
        /\ (Returned /\ RootRejected) =>
              w_result.structure.files = <<>> /\ w_result.structure.directories = <<>>

W_C5_RootRejected ==
    /\ Returned /\ RootRejected
    /\ scan_tree.files # <<>> /\ scan_tree.dirs # <<>>
    /\ w_result.total_files = 0

\* the name is hidden or one of the fixed exclusion set
ExcludedName(n) == (n # <<>> /\ n[1] = ".") \/ n \in excluded_dir_names

\* some directory on the way to the file is excluded
FileUnderExcluded(path) == \E i \in 1..(Len(path) - 1) : ExcludedName(path[i])
DirExcluded(path) == \E i \in 1..Len(path) : ExcludedName(path[i])

\* C8: a directory that is hidden or in the fixed exclusion set, at any depth
\* below the scan root, contributes no entry to directories and no file of its
\* subtree appears in files.
C8_ExcludedDirsAbsent ==
    /\ \A path \in Range(directories) : ~DirExcluded(path)
    /\ \A path \in RecordedPaths : ~FileUnderExcluded(path)
    /\ \A path \in VisitedOrPending : ~DirExcluded(path)

W_C8_NestedNodeModules ==
    /\ Returned /\ ~RootRejected /\ request.max_files = <<>>
    /\ <<d_src>> \in Range(directories)
    /\ \E i \in 1..Len(scan_tree.dirs) :
          /\ scan_tree.dirs[i].name = d_src
          /\ \E j \in 1..Len(scan_tree.dirs[i].sub.dirs) :
                /\ scan_tree.dirs[i].sub.dirs[j].name = d_node_modules
                /\ scan_tree.dirs[i].sub.dirs[j].sub.files # <<>>

\* the relative paths of the files of the tree whose scan fails: os.stat or
\* open() raises
RECURSIVE FailingPaths(_, _)
FailingPaths(listing, rel) ==
    {rel \o <<f.name>> : f \in {g \in Range(listing.files) : ~g.stat_ok \/ ~g.readable}}
    \cup UNION {FailingPaths(d.sub, rel \o <<d.name>>) : d \in Range(listing.dirs)}

\* the relative paths of the files of the tree that nothing keeps out of the
\* inventory: no link, no hidden or log file, no binary suffix, within the
\* size limit, stat and read succeed, below no excluded or linked directory
RECURSIVE SoundPaths(_, _)
SoundPaths(listing, rel) ==
    {rel \o <<f.name>> :
        f \in {g \in Range(listing.files) :
                  /\ ~g.link /\ g.name[1] # "."
                  /\ ~EndsWith(g.name, <<".","l","o","g">>)
                  /\ \A ext \in binary_extensions : ~EndsWith(Lower(g.name), ext)
                  /\ g.stat_ok /\ g.size <= 1048576 /\ g.readable}}
    \cup UNION {SoundPaths(d.sub, rel \o <<d.name>>) :
                  d \in {e \in Range(listing.dirs) : ~e.link /\ ~ExcludedName(e.name)}}

\* C12: a file whose scan fails (os.stat raises, open raises) is absent from
\* files; the walk still runs to its return, the returned inventory holds
\* every other eligible file, and no state of the walk is a raised error.
C12_FileErrorsDropped ==
    /\ RecordedPaths \cap FailingPaths(scan_tree, <<>>) = {}
    /\ w_result.status \in {"idle", "returned"}
    /\ (w_pc # "done") => StepAvailable
    /\ (w_pc = "done") => Returned
    /\ (Returned /\ ~RootRejected /\ ~Truthy(request.max_files)) =>
          {w_result.structure.files[i].path : i \in 1..Len(w_result.structure.files)}
              = SoundPaths(scan_tree, <<>>)

W_C12_FailuresBeforeSoundFile ==
    /\ Returned /\ ~RootRejected
    /\ Len(scan_tree.files) = 3
    /\ ~scan_tree.files[1].stat_ok
    /\ scan_tree.files[2].stat_ok /\ ~scan_tree.files[2].readable
    /\ <<scan_tree.files[3].name>> \in RecordedPaths
    /\ w_result.total_files = 1

\* the record carries a structural summary with a section of this label, which
\* _generate_file_summary writes only for a non-empty list
ListsSection(file_info, label) ==
    /\ file_info.documentation # <<>>
    /\ Contains(file_info.documentation[1], txt_bar \o label \o txt_open)

\* C16: the stats of _extract_code_structure count the functions and the
\* imports of the summarized records: when a summarized record lists at least
\* one function (import), total_functions (total_imports) is greater than zero.
C16_StatsCountFunctionsAndImports ==
    Returned =>
        LET summarized == w_result.structure.files
            stats == w_result.code_analysis
        IN  /\ (\E i \in 1..Len(summarized) : ListsSection(summarized[i], txt_Functions))
                  => stats.total_functions > 0
            /\ (\E i \in 1..Len(summarized) : ListsSection(summarized[i], txt_Imports))
                  => stats.total_imports > 0

\* the file of the scanned tree a record was made from
FileAt(path) ==
    LET listing == Lookup(scan_tree, SubSeq(path, 1, Len(path) - 1))
    IN  CHOOSE f \in Range(listing.files) : f.name = path[Len(path)]

SummaryJustified(file_info) ==
    /\ (file_info.documentation # <<>>) =>
          /\ file_info.language \in { <<"p","y","t","h","o","n">>,
                                      <<"j","a","v","a","s","c","r","i","p","t">> }
          /\ request.include_documentation
          /\ ~FileAt(file_info.path).parse_raises
    /\ (file_info.language \notin { <<"p","y","t","h","o","n">>,
                                    <<"j","a","v","a","s","c","r","i","p","t">> }) =>
          file_info.documentation = <<>>
    /\ ~request.include_documentation => file_info.documentation = <<>>

\* C17: a FileRecord carries a structural summary only if its language is
\* python or javascript, include_documentation was true and the extraction
\* succeeded; a record of any other language, and every record of a scan
\* with include_documentation false, has none.
C17_SummaryOnlyWhenExtracted ==
    /\ \A i \in 1..Len(files) : SummaryJustified(files[i])
    /\ Returned =>
          \A i \in 1..Len(w_result.structure.files) :
              SummaryJustified(w_result.structure.files[i])

W_C17_SummarizedBesideUnsummarized ==
    /\ Returned /\ request.include_documentation
    /\ \E i, j, k \in 1..Len(w_result.structure.files) :
          LET a == w_result.structure.files[i]
              b == w_result.structure.files[j]
              c == w_result.structure.files[k]
          IN  /\ a.language = lang_python /\ a.documentation # <<>>
              /\ b.language = lang_javascript /\ b.documentation = <<>>
              /\ c.language \notin {lang_python, lang_javascript} /\ c.documentation = <<>>

\* the count of recorded files has reached max_files
LimitHit == request.max_files # <<>> /\ file_count >= request.max_files[1]

\* a step that scans no file, records nothing and yields no directory: what
\* is left of the walk is its way to the return
NoFurtherWork ==
    /\ files' = files
    /\ file_count' = file_count
    /\ total_lines' = total_lines
    /\ directories' = directories
    /\ stack' = stack
    /\ w_root' = w_root
    /\ w_pc' \in {"files", "assemble", "done"}

\* C19: once the count of recorded files has reached max_files, no further
\* file is scanned and no further directory is descended into, and the walk
\* returns its inventory normally.
C19_EarlyTermination ==
    /\ [][LimitHit => NoFurtherWork]_vars
    /\ [](LimitHit /\ w_pc = "done" => Returned)

\* the same statement for the limits that bool() takes for true
EarlyTerminationPositiveLimit ==
    /\ [][(LimitHit /\ request.max_files[1] # 0) => NoFurtherWork]_vars
    /\ [](LimitHit /\ w_pc = "done" => Returned)

(***************************************************************************)
(* Properties of PathGuard (SpecGuard)                                     *)
(***************************************************************************)
\* the canonical path equals or lies under a root of the deny list
UnderDenyRoot(real_path, links) ==
    \E forbidden_dir \in forbidden_dirs(links) : IsPrefix(forbidden_dir, real_path)

\* C2: a path whose canonical form equals or lies under a deny-list root is
\* rejected with an access-denied error, also when an allow-list root contains
\* it; its canonical path is never returned.
C2_DenyWins ==
    (g_result.status # "idle" /\ UnderDenyRoot(realpath(g_path, symlinks), symlinks))
        => g_result.status = "raised"

\* the canonical path equals a root of the allow list or lies below it, whole
\* segment by whole segment
UnderAllowRoot(real_path, cwd_, links) ==
    \E allow_root \in { realpath(<<seg_workspace>>, links), realpath(<<seg_home>>, links),
                         realpath(<<seg_tmp>>, links), realpath(cwd_, links) } :
        /\ Len(allow_root) <= Len(real_path)
        /\ \A i \in 1..Len(allow_root) : real_path[i] = allow_root[i]

\* C11: PathGuard accepts a path only if its canonical form equals an
\* allow-list root or descends from one by whole path segments; a path that
\* lies under no allow root, even one that has an allow root as a prefix of
\* its text (/home2/u against /home), is rejected with the access-denied error.
C11_SegmentContainment ==
    LET real_path == realpath(g_path, symlinks) IN
    (g_result.status # "idle") =>
        /\ (g_result.status = "returned") => UnderAllowRoot(real_path, cwd, symlinks)
        /\ ~UnderAllowRoot(real_path, cwd, symlinks) =>
              /\ g_result.status = "raised"
              /\ g_result.error = "Access denied: not within allowed directories"

W_C11_Home2Rejected ==
    /\ g_path = <<seg_home2, seg_u>>
    /\ symlinks = NoLinks
    /\ StartsWith(SlashText(g_path), SlashText(<<seg_home>>))
    /\ g_result.status = "raised"

(***************************************************************************)
(* Properties of the structural extractor (SpecParse)                      *)
(***************************************************************************)
\* the names of the function definitions whose enclosing scope is the module:
\* a class body or a function body opens a scope of its own
RECURSIVE ModuleScopeFunctions(_, _)
RECURSIVE ModuleScopeFunctionsAll(_, _)
ModuleScopeFunctions(node, at_module) ==
    (IF node.type = "function_definition" /\ at_module /\ node.name # <<>>
     THEN <<node.name>> ELSE <<>>)
    \o ModuleScopeFunctionsAll(node.children,
           at_module /\ node.type \notin {"function_definition", "class_definition"})
ModuleScopeFunctionsAll(children, at_module) ==
    IF children = <<>> THEN <<>>
    ELSE ModuleScopeFunctions(Head(children), at_module)
         \o ModuleScopeFunctionsAll(Tail(children), at_module)

PythonParsed ==
    p_result.status = "returned" /\ p_language = lang_python /\ p_result.code_info # <<>>

\* C6: the functions list of _parse_python_code holds exactly the names of the
\* function definitions whose enclosing scope is the module: no method
\* (decorated or not) and no function nested in a function or method body.
C6_FunctionsAreModuleScope ==
    PythonParsed => p_result.code_info[1].functions = ModuleScopeFunctions(p_tree, TRUE)

\* the class nodes of a tree, in source order
RECURSIVE ClassNodes(_)
ClassNodes(node) ==
    (IF node.type \in {"class_definition", "class_declaration"} /\ node.name # <<>>
     THEN <<node>> ELSE <<>>)
    \o Flatten([i \in 1..Len(node.children) |-> ClassNodes(node.children[i])])

\* the names of the function and method definitions that are direct members
\* of the class's own body, decorated or not, in source order
DirectMethods(class_node) ==
    LET IsBody(child) == child.type \in {"block", "class_body"}
        IsDefinition(stmt) == stmt.type \in {"function_definition", "method_definition"}
        bodies == SelectSeq(class_node.children, IsBody)
        members == Flatten([i \in 1..Len(bodies) |-> bodies[i].children])
        Defined(stmt) ==
            IF IsDefinition(stmt) THEN <<stmt.name>>
            ELSE IF stmt.type = "decorated_definition"
            THEN LET inner == SelectSeq(stmt.children, IsDefinition)
                 IN  [i \in 1..Len(inner) |-> inner[i].name]
            ELSE <<>>
    IN  Flatten([i \in 1..Len(members) |-> Defined(members[i])])

MethodsAreDirectMembers ==
    LET class_nodes == ClassNodes(p_tree)
        classes == p_result.code_info[1].classes
    IN  /\ Len(classes) = Len(class_nodes)
        /\ \A i \in 1..Len(classes) :
              /\ classes[i].name = class_nodes[i].name
              /\ classes[i].methods = DirectMethods(class_nodes[i])

\* C20: for every Python or JavaScript source, the methods list of each
\* extracted class descriptor holds exactly the names of the function and
\* method definitions that are direct members of that class's own body, in
\* source order; the methods of a nested class are listed under the nested
\* class only, and module-level functions under no class.
C20_MethodsAreDirectMembers ==
    (p_result.status = "returned" /\ p_result.code_info # <<>>) => MethodsAreDirectMembers

\* the same statement for the JavaScript sources alone
JavascriptMethodsAreDirectMembers ==
    (p_result.status = "returned" /\ p_result.code_info # <<>> /\ p_language = lang_javascript)
        => MethodsAreDirectMembers

(***************************************************************************)
(* Properties of the file scanner (SpecFile)                               *)
(***************************************************************************)
EqualIgnoringCase(a, b) == Lower(a) = Lower(b)

\* the name ends, whatever the case of its letters, with an extension of the
\* binary set, and that extension is not the whole name
HasBinarySuffix(name) ==
    \E ext \in binary_extensions :
        /\ Len(name) > Len(ext)
        /\ EqualIgnoringCase(SubSeq(name, Len(name) - Len(ext) + 1, Len(name)), ext)

Scanned == f_result.status = "returned"

\* the file passes every filter that comes before the structural parse
ReachesParse ==
    /\ ~HasBinarySuffix(f_file.name)
    /\ f_file.stat_ok
    /\ f_file.size <= 1048576
    /\ f_file.readable

IsPythonOrJavascript(name) ==
    \E ext \in {<<".","p","y">>, <<".","j","s">>, <<".","j","s","x">>} :
        EndsWith(Lower(name), ext) /\ Len(name) > Len(ext)

ParseFails ==
    ReachesParse /\ f_include /\ IsPythonOrJavascript(f_file.name) /\ f_file.parse_raises

\* C7: a python or javascript file whose structural parse fails still yields
\* its FileRecord, with path, size, line count and language, and without
\* documentation.
C7_ParseFailureKeepsRecord ==
    (Scanned /\ ParseFails) =>
        /\ Len(f_result.info) = 1
        /\ f_result.info[1].path = <<f_file.name>>
        /\ f_result.info[1].size = f_file.size
        /\ f_result.info[1].lines = f_file.newlines + 1
        /\ f_result.info[1].language \in {lang_python, lang_javascript}
        /\ f_result.info[1].documentation = <<>>

W_C7_ParseFailed == Scanned /\ ParseFails /\ f_result.info # <<>>

\* C9: a file whose suffix, compared case-insensitively, is in the binary
\* extension set yields no FileRecord, whatever its size and content.
C9_BinaryNeverRecorded ==
    (Scanned /\ HasBinarySuffix(f_file.name)) => f_result.info = <<>>

W_C9_UpperCaseBinary ==
    /\ Scanned
    /\ HasBinarySuffix(f_file.name)
    /\ f_file.name # Lower(f_file.name)
    /\ f_file.stat_ok /\ f_file.readable /\ f_file.size = 0
    /\ f_result.info = <<>>

\* C10: a file larger than 1048576 bytes yields no FileRecord, every
\* FileRecord has size <= 1048576, and a file of exactly 1048576 bytes that
\* passes the other filters is recorded.
C10_SizeLimit ==
    Scanned =>
        /\ (f_file.stat_ok /\ f_file.size > 1048576) => f_result.info = <<>>
        /\ f_result.info # <<>> => f_result.info[1].size <= 1048576
        /\ (ReachesParse /\ f_file.size = 1048576) => f_result.info # <<>>

W_C10_Oversize ==
    /\ Scanned
    /\ ~HasBinarySuffix(f_file.name) /\ f_file.stat_ok /\ f_file.readable
    /\ f_file.size = 1048577
    /\ f_result.info = <<>>

(***************************************************************************)
(* Properties of analyze_codebase (SpecAnalyze)                            *)
(***************************************************************************)
LocalExited == a_input_type = "local_path" /\ a_pc = "exited"

\* the local source is a directory that the guard lets through
RootValid ==
    /\ root_kind = "directory"
    /\ validate_path_security(a_source, cwd, symlinks).status = "returned"

\* C13: a walk whose root path does not exist or is not a directory fails
\* with an error surfaced to the caller and returns no inventory; below a
\* valid root, whatever the entries are (unreadable files, links, failing
\* parses), the walk returns its inventory unless the call is ended from
\* outside.
C13_InvalidRootFails ==
    LocalExited =>
        /\ (root_kind # "directory") =>
              /\ a_result.status = "raised"
              /\ w_pc = "idle" /\ w_result = WalkIdle
        /\ (RootValid /\ aborted = "") =>
              /\ a_result.status = "returned"
              /\ a_result.result.status = "returned"

W_C13_NotADirectory ==
    /\ LocalExited
    /\ root_kind = "file"
    /\ validate_path_security(a_source, cwd, symlinks).status = "returned"
    /\ a_result = Raised("ValueError")

GithubExited == a_input_type = "github_url" /\ a_pc = "exited"

\* C14: the temporary directory of a GitHub analysis is removed on every exit
\* path of _analyze_github_repo (scan returned, clone failed, scan failed,
\* task cancelled): no call has exited with its directory still existing.
C14_TempDirRemoved ==
    /\ GithubExited => temp_dir = "removed"
    /\ (temp_dir = "exists") => a_pc \in {"cloning", "scanning", "finally"}

W_C14_CancelledScan ==
    /\ GithubExited
    /\ aborted = "CancelledError"
    /\ a_result = Raised("CancelledError")
    /\ files # <<>>
    /\ temp_dir = "removed"

(***************************************************************************)
(* Properties of repeated walks (SpecRescan)                               *)
(***************************************************************************)
RecordSet(result) == {result.structure.files[i] : i \in 1..Len(result.structure.files)}

SameInventory(a, b) ==
    /\ RecordSet(a) = RecordSet(b)
    /\ Range(a.structure.directories) = Range(b.structure.directories)
    /\ a.total_files = b.total_files
    /\ a.total_lines = b.total_lines

\* C15: walking the same unchanged directory twice with the same max_files
\* and include_documentation yields the same set of FileRecords, the same set
\* of directories and the same totals, whatever order the filesystem lists
\* the entries in.
C15_RescanSameInventory ==
    (Returned /\ runs # <<>>) => SameInventory(w_result, runs[1])

\* the same statement for the walks that no max_files limit cuts short
RescanSameInventoryBelowLimit ==
    (Returned /\ runs # <<>> /\ ~limit_reached(request.max_files, runs[1].total_files))
        => SameInventory(w_result, runs[1])

(***************************************************************************)
(* Properties of the job table (SpecJobs)                                  *)
(***************************************************************************)
\* C18: every job follows processing -> completed | failed: start_analysis
\* creates it as processing, its status changes at most once, to completed
\* or to failed, a completed or failed job keeps its status, no job leaves
\* the table, and started_at is the same before and after every step.
C18_JobStateMachine ==
    [][/\ Len(analysis_results') >= Len(analysis_results)
       /\ \A analysis_id \in 1..Len(analysis_results) :
             LET old == analysis_results[analysis_id]
                 new == analysis_results'[analysis_id]
             IN  /\ new.started_at = old.started_at
                 /\ (new.status # old.status) =>
                       /\ old.status = "processing"
                       /\ new.status \in {"completed", "failed"}
       /\ \A analysis_id \in (Len(analysis_results) + 1)..Len(analysis_results') :
             analysis_results'[analysis_id].status = "processing"]_vars

W_C18_CompletedAndFailed ==
    /\ Len(analysis_results) = 2
    /\ analysis_results[1].status = "completed"
    /\ analysis_results[1].completed_at > analysis_results[1].started_at
    /\ analysis_results[2].status = "failed"
    /\ analysis_results[2].completed_at > analysis_results[2].started_at

(***************************************************************************)
(* Properties of the summaries and their aggregation (SpecSummary)         *)
(***************************************************************************)
\* the sections of a summary under a label: the parts after the head that open
\* with "<label> ("
SummarySections(doc, label) ==
    LET Opens(part) == StartsWith(part, label \o txt_open)
    IN  SelectSeq(Tail(Split(doc, txt_bar)), Opens)

\* what a section shows after "): "
SectionBody(section) ==
    SubSeq(section, Find(section, txt_close) + Len(txt_close), Len(section))

\* the items of a section body, the ellipsis marker set aside
ListedItems(body, sep) ==
    Split(IF EndsWith(body, txt_ellipsis)
          THEN SubSeq(body, 1, Len(body) - Len(txt_ellipsis))
          ELSE body,
          sep)

\* the section is left out for an empty list; otherwise it shows the first
\* `shown` items in order, and the marker exactly when there are more
SectionShowsFirst(doc, label, list, sep, shown) ==
    LET sections == SummarySections(doc, label) IN
    IF list = <<>> THEN sections = <<>>
    ELSE /\ Len(sections) = 1
         /\ LET body == SectionBody(sections[1]) IN
            /\ ListedItems(body, sep) = Take(list, shown)
            /\ EndsWith(body, txt_ellipsis) <=> Len(list) > shown

\* the class section names every class, in order
SectionNamesClasses(doc, classes) ==
    LET sections == SummarySections(doc, txt_Classes) IN
    IF classes = <<>> THEN sections = <<>>
    ELSE /\ Len(sections) = 1
         /\ LET items == Split(SectionBody(sections[1]), txt_comma) IN
            /\ Len(items) = Len(classes)
            /\ \A i \in 1..Len(items) : Contains(items[i], classes[i].name)

\* the item of every class shows the number of its methods
SectionCountsMethods(doc, classes) ==
    classes # <<>> =>
        LET sections == SummarySections(doc, txt_Classes)
            items == Split(SectionBody(sections[1]), txt_comma)
        IN  /\ Len(sections) = 1
            /\ Len(items) = Len(classes)
            /\ \A i \in 1..Len(items) :
                  Contains(items[i], IntText(Len(classes[i].methods)))

\* the records rendered so far that carry a summary
Summarized == {i \in 1..Len(x_files) : x_files[i].documentation # <<>>}

\* C21: every summary names the classes together with their method counts,
\* shows at most the first 10 function names and the first 5 import texts in
\* extraction order, carries the ellipsis marker exactly when the list is
\* longer, and leaves out the section of an empty list.
C21_SummaryFormat ==
    \A i \in Summarized :
        LET doc == x_files[i].documentation[1]
            code_info == x_sources[i].code_info[1]
        IN  /\ SectionNamesClasses(doc, code_info.classes)
            /\ SectionCountsMethods(doc, code_info.classes)
            /\ SectionShowsFirst(doc, txt_Functions, code_info.functions, txt_comma,
                                 FunctionsShown)
            /\ SectionShowsFirst(doc, txt_Imports, code_info.imports, txt_semi,
                                 ImportsShown)

\* what the code does keep of C21: the class names, the truncated lists, the
\* markers and the omitted sections
SummaryTruncatesLists ==
    \A i \in Summarized :
        LET doc == x_files[i].documentation[1]
            code_info == x_sources[i].code_info[1]
        IN  /\ SectionNamesClasses(doc, code_info.classes)
            /\ SectionShowsFirst(doc, txt_Functions, code_info.functions, txt_comma,
                                 FunctionsShown)
            /\ SectionShowsFirst(doc, txt_Imports, code_info.imports, txt_semi,
                                 ImportsShown)

\* a summary with both markers: eleven functions and six imports
ManyFunctionsAndImports ==
    \E i \in Summarized :
        /\ Len(x_sources[i].code_info[1].functions) > FunctionsShown
        /\ Len(x_sources[i].code_info[1].imports) > ImportsShown

\* the classes of the summarized python and javascript records, each with the
\* path of its record, in file order
RenderedClasses ==
    Flatten([i \in 1..Len(x_files) |->
        IF i \in Summarized /\ x_files[i].language \in {lang_python, lang_javascript}
        THEN [k \in 1..Len(x_sources[i].code_info[1].classes) |->
                 [name |-> x_sources[i].code_info[1].classes[k].name,
                  file |-> x_files[i].path]]
        ELSE <<>>])

Aggregated == x_code_analysis.status = "returned"

\* the stats count and pair exactly the rendered classes
StatsMatchRendered ==
    /\ x_code_analysis.code_analysis.total_classes = Len(RenderedClasses)
    /\ Range(x_code_analysis.code_analysis.classes_by_file) = Range(RenderedClasses)

\* C22 as stated: for every list of records, paths containing 'Classes'
\* included, total_classes is the number of class names rendered in the
\* summaries and classes_by_file pairs each with the path of its record.
C22_ClassesCountedFromSummaries ==
    Aggregated => StatsMatchRendered

\* the text 'Classes' occurs in the summary only as the label of its class
\* section
LabelOnly(i) ==
    Len(Split(x_files[i].documentation[1], txt_Classes)) - 1
        = IF x_sources[i].code_info[1].classes = <<>> THEN 0 ELSE 1

\* C22 amended: the count and the pairing hold for every list of records in
\* whose summaries the text 'Classes' occurs only as the label of the class
\* section.
C22_ClassesCountedWhenLabelOnly ==
    (Aggregated /\ \A i \in Summarized : LabelOnly(i)) => StatsMatchRendered

\* two summarized records free of the text, three classes between them
W_C22_ThreeClassesInTwoFiles ==
    /\ Aggregated
    /\ Len(x_files) = 2
    /\ Summarized = {1, 2}
    /\ \A i \in Summarized : LabelOnly(i)
    /\ Len(RenderedClasses) = 3
    /\ x_code_analysis.code_analysis.total_classes = 3

(***************************************************************************)
(* Properties of concurrent jobs (SpecConcurrent)                          *)
(***************************************************************************)
\* the scan run to its end with nothing else going on
RECURSIVE RunAlone(_)
RunAlone(scan) ==
    IF scan.pc = "done" THEN scan ELSE RunAlone(walk_iteration(scan, cwd, symlinks))

\* the walk of Spec, taken action by action, returns what the iterations of a
\* scan return
WalkAgreesWithIterations ==
    w_pc = "done" =>
        w_result = RunAlone(new_scan(directory_path, scan_tree, request)).result

\* the jobs whose task took the step
Stepped == {b \in DOMAIN tasks : tasks'[b] # tasks[b]}

\* every finished scan returned what the same call returns when run alone
InventoriesAsAlone ==
    \A a \in DOMAIN scans :
        scans[a].pc = "done" =>
            scans[a].result =
                RunAlone(new_scan(scans[a].directory_path, scans[a].scan_tree,
                                  scans[a].request)).result

\* a step leaves alone every table entry but that of the one task that took
\* it, and every scan but the one that went on
IsolatedStep ==
    /\ Cardinality(Stepped) <= 1
    /\ \A b \in DOMAIN analysis_results :
          analysis_results'[b] # analysis_results[b] => b \in Stepped
    /\ \A a \in DOMAIN scans \cap DOMAIN scans' :
          scans'[a] # scans[a] =>
              \A c \in (DOMAIN scans \cap DOMAIN scans') \ {a} : scans'[c] = scans[c]
    /\ \A a \in DOMAIN scans \ DOMAIN scans' :
          \A c \in DOMAIN scans \ {a} : c \in DOMAIN scans' /\ scans'[c] = scans[c]

ProperAncestors(path) == {SubSeq(path, 1, k) : k \in 1..(Len(path) - 1)}

\* C24: in every walk result, each proper ancestor directory of a recorded
\* file's relative path, below the scanned root, is among directories: no
\* file is recorded from a directory that was not recorded itself.
C24_AncestorsRecorded ==
    Returned =>
        \A i \in 1..Len(w_result.structure.files) :
            ProperAncestors(w_result.structure.files[i].path)
                \subseteq Range(w_result.structure.directories)

\* a file two directories below the root is in the result
W_C24_FileTwoLevelsDown ==
    /\ Returned
    /\ \E i \in 1..Len(w_result.structure.files) :
          Len(w_result.structure.files[i].path) = 3

(***************************************************************************)
(* The answers of the service (SpecService)                                *)
(***************************************************************************)
\* the step is an answer of the endpoint
Answered(endpoint) ==
    /\ http_request'.endpoint = endpoint
    /\ <<response', http_request'>> # <<response, http_request>>

\* the answer of a step matches the status the job has in the table
AnswerMatchesStatus ==
    LET analysis_id == http_request'.analysis_id
        known == analysis_id \in DOMAIN analysis_results
        status == analysis_results[analysis_id].status
    IN  /\ Answered("result") =>
              /\ analysis_results' = analysis_results
              /\ ~known => response'.status_code = 404
              /\ (known /\ status = "processing") => response'.status_code = 202
              /\ (known /\ status = "failed") =>
                     /\ response'.status_code = 500
                     /\ response'.detail = analysis_results[analysis_id].error
              /\ (known /\ status = "completed") =>
                     response' = [status_code |-> 200,
                                  data |-> analysis_results[analysis_id].data]
              /\ "data" \in DOMAIN response' => (known /\ status = "completed")
        /\ Answered("status") =>
              /\ analysis_results' = analysis_results
              /\ ~known => response'.status_code = 404
              /\ known => response'.status_code = 200 /\ response'.status = status

\* every completed job has data to return, every failed job an error
CompletedHaveData ==
    \A analysis_id \in DOMAIN analysis_results :
        /\ analysis_results[analysis_id].status \in {"processing", "completed", "failed"}
        /\ analysis_results[analysis_id].status = "completed" =>
               "data" \in DOMAIN analysis_results[analysis_id]
        /\ analysis_results[analysis_id].status = "failed" =>
               "error" \in DOMAIN analysis_results[analysis_id]

\* C25: in every reachable state of the job table, get_analysis_result hands
\* out data only for a completed job and every completed job has data; a
\* processing job is answered 202, a failed job 500 with the stored error, and
\* an unknown analysis_id 404 by both endpoints, the table left as it was.
C25_ResultOnlyWhenCompleted == [][AnswerMatchesStatus]_vars /\ []CompletedHaveData

\* the result of a completed job has been handed out while another job of the
\* table has failed
W_C25_DataBesideFailure ==
    /\ http_request.endpoint = "result"
    /\ http_request.analysis_id \in DOMAIN analysis_results
    /\ analysis_results[http_request.analysis_id].status = "completed"
    /\ response = [status_code |-> 200,
                   data |-> analysis_results[http_request.analysis_id].data]
    /\ \E b \in DOMAIN analysis_results : analysis_results[b].status = "failed"

====
